---- MODULE Spec2Model ----
(***************************************************************************)
(* Model of the SCD30 monitor's reporting subsystem (scd30::Report):  the  *)
(* reading buffer and the batched upload pipeline.                         *)
(*                                                                         *)
(* The Report object is the record `report`, one field per data member,    *)
(* under the member's own name.  Report::config(), Report::add(),          *)
(* Report::upload() and Report::loop() are operators from a Report record  *)
(* to a Report record; the actions Config, Add and Loop apply one whole    *)
(* handler each, in any order (the handlers are called from one            *)
(* cooperative main loop, never concurrently).                             *)
(*                                                                         *)
(* While a handler runs, the record carries `obs`, the log of what the     *)
(* handler did to its collaborators and to the buffer (calls on the HTTP   *)
(* client, log lines, elements removed and added).  `last`, `cycle` and    *)
(* `added` are history variables derived from that log.                    *)
(***************************************************************************)
EXTENDS Integers, Sequences, FiniteSets, TLC

(***************************************************************************)
(* Bounds of the model.                                                    *)
(***************************************************************************)
\* Capacity of the reading buffer in the model.  The firmware's value is 360
\* (MAXIMUM_STORE_READINGS); every use of it in the code is a comparison
\* with readings_.size(), so the model keeps the code and scales the number.
MaxStore == 2
\* add() is called with timestamps up to BASELINE + MaxTs.
MaxTs == 3
\* Largest report threshold the configuration is given.
MaxThreshold == 2
\* Length of the long user name the configuration is given: with it the
\* payload header leaves room for one to three readings under the byte cap.
LongName == 560
\* Length of a user name so long that the payload header and one reading
\* are already above the byte cap.
HugeName == 620
\* Sensor::loop() reads the wall clock at times up to BASELINE + MaxNow.
MaxNow == 1

(***************************************************************************)
(* Program constants.                                                      *)
(***************************************************************************)
BASELINE == 19035 * 86400
MAXIMUM_STORE_READINGS == MaxStore
MAXIMUM_UPLOAD_BYTES == 640
VALUE_SIZE == 16

TEMP_BITS == 14
TEMP_DIV == 100
TEMP_MUL == 100 \div TEMP_DIV
TEMP_MIN == -(2 ^ (TEMP_BITS - 1)) + 1
TEMP_MAX == (2 ^ (TEMP_BITS - 1)) - 1
TEMP_NAN == TEMP_MIN - 1

RHUM_BITS == 14
RHUM_DIV == 100
RHUM_MUL == 100 \div RHUM_DIV
RHUM_MIN == 0
RHUM_MAX == (2 ^ RHUM_BITS) - 2
RHUM_NAN == RHUM_MAX + 1

CO2_BITS == 20
CO2_DIV == 20
CO2_MUL == 100 \div CO2_DIV
CO2_MIN == 0
CO2_MAX == (2 ^ CO2_BITS) - 2
CO2_NAN == CO2_MAX + 1

HTTP_CODE_OK == 200
ACK == "OK\n"

(***************************************************************************)
(* Helpers of the C++ the code is written in.                              *)
(***************************************************************************)
Min(a, b) == IF a < b THEN a ELSE b
Max(a, b) == IF a > b THEN a ELSE b
Abs(a) == IF a < 0 THEN -a ELSE a
\* C++ integer division and remainder truncate toward zero.
CDiv(a, b) == IF a >= 0 THEN a \div b ELSE -((-a) \div b)
CMod(a, b) == a - b * CDiv(a, b)

\* Text is a sequence of one-character strings.
DigitChars == <<"0", "1", "2", "3", "4", "5", "6", "7", "8", "9">>

RECURSIVE utoa(_)
\* printf's %u
utoa(n) ==
    IF n < 10 THEN <<DigitChars[n + 1]>>
    ELSE utoa(n \div 10) \o <<DigitChars[(n % 10) + 1]>>

\* printf's %d
itoa(n) == IF n < 0 THEN <<"-">> \o utoa(-n) ELSE utoa(n)

\* printf's %02u
utoa02(n) == IF n < 10 THEN <<"0">> \o utoa(n) ELSE utoa(n)

\* std::string::rfind(prefix, 0) == 0
StartsWith(s, prefix) ==
    /\ Len(s) >= Len(prefix)
    /\ SubSeq(s, 1, Len(prefix)) = prefix

HTTPS_PREFIX == <<"h", "t", "t", "p", "s", ":", "/", "/">>
HTTP_PREFIX == <<"h", "t", "t", "p", ":", "/", "/">>

(***************************************************************************)
(* A float is modelled by its class and, when it is a finite number, by    *)
(* its value in thousandths (the binary rounding of the float product is   *)
(* not modelled).                                                          *)
(***************************************************************************)
FloatNaN == [cls |-> "nan", v |-> 0]
FloatInf == [cls |-> "inf", v |-> 0]
FloatNegInf == [cls |-> "ninf", v |-> 0]
FloatZero == [cls |-> "zero", v |-> 0]
Float(milli) == IF milli = 0 THEN FloatZero ELSE [cls |-> "normal", v |-> milli]

\* Mutant of isnormal: an infinite value counts as a number.
isnormal_accepts_infinite(f) == f.cls \in {"normal", "inf", "ninf"}

\* std::isnormal: neither zero, subnormal, infinite nor NaN.
isnormal(f) == f.cls = "normal"

\* std::lroundf(f * div): round half away from zero.
lroundf(f, div) ==
    LET n == f.v * div
    IN  IF n >= 0 THEN (n + 500) \div 1000 ELSE -((-n + 500) \div 1000)

(***************************************************************************)
(* struct Reading                                                          *)
(***************************************************************************)
\* The value a bit-field of the given width holds after an assignment: the
\* value modulo 2^bits, in the range of the field's type.
SignedField(v, bits) ==
    LET m == v % (2 ^ bits)
    IN  IF m >= 2 ^ (bits - 1) THEN m - 2 ^ bits ELSE m
UnsignedField(v, bits) == v % (2 ^ bits)

Reading(timestamp_, temperature_c_, relative_humidity_pc_, co2_ppm_) ==
    [timestamp |-> timestamp_,
     temperature_c |->
        SignedField(IF isnormal(temperature_c_)
                    THEN Max(TEMP_MIN, Min(TEMP_MAX, lroundf(temperature_c_, TEMP_DIV)))
                    ELSE TEMP_NAN, TEMP_BITS),
     relative_humidity_pc |->
        UnsignedField(IF isnormal(relative_humidity_pc_)
                      THEN Max(RHUM_MIN, Min(RHUM_MAX, lroundf(relative_humidity_pc_, RHUM_DIV)))
                      ELSE RHUM_NAN, RHUM_BITS),
     co2_ppm |->
        UnsignedField(IF isnormal(co2_ppm_)
                      THEN Max(CO2_MIN, Min(CO2_MAX, lroundf(co2_ppm_, CO2_DIV)))
                      ELSE CO2_NAN, CO2_BITS)]

(***************************************************************************)
(* What a handler does to its collaborators and to the buffer is logged    *)
(* in the record's obs field, one event per call or element:               *)
(*   begin, addHeader, POST (with the status returned), getString (with    *)
(*   the body returned), end: calls on http_client_;                       *)
(*   discard: a pop_front() of add();  emplace: the emplace_back() of      *)
(*   add();  remove: a pop_front() of the CLEANUP step;                    *)
(*   alert, err, info: log lines at these levels.                          *)
(***************************************************************************)
Ev(name) == [op |-> name, code |-> 0, body |-> ""]
EvPost(response) == [op |-> "POST", code |-> response, body |-> ""]
EvGetString(text) == [op |-> "getString", code |-> 0, body |-> text]
Log(r, e) == [r EXCEPT !.obs = Append(@, e)]

\* HTTPClient::begin() and HTTPClient::end(), as far as Report depends on
\* them: a session is open between the two.
http_begin(r) == Log([r EXCEPT !.http_client_ = [connected |-> TRUE]], Ev("begin"))
http_end(r) == Log([r EXCEPT !.http_client_ = [connected |-> FALSE]], Ev("end"))

UploadStates == <<"IDLE", "CONNECT", "SEND", "RECEIVE", "CLEANUP">>
\* The position of an UploadState in the enum (its integer value).
StateOrd(s) == CHOOSE i \in 1..Len(UploadStates) : UploadStates[i] = s

(***************************************************************************)
(* Report::upload(), case SEND: the encoding of the payload.               *)
(***************************************************************************)
\* snprintf_P(value.data(), value.size(), ...): the text, and whether it fit.
snprintf(text) == [text |-> text, ok |-> Len(text) < VALUE_SIZE]

\* The four fields of one reading, as the loop body formats them.
FieldTimestamp(reading) == snprintf(<<"&", "s", "=">> \o utoa(reading.timestamp))
FieldTemperature(reading) ==
    IF reading.temperature_c # TEMP_NAN
    THEN snprintf(<<"&", "t", "=">>
                  \o itoa(CDiv(reading.temperature_c, TEMP_DIV))
                  \o <<".">>
                  \o utoa02(CMod(Abs(reading.temperature_c), TEMP_DIV) * TEMP_MUL))
    ELSE [text |-> <<"&", "t", "=">>, ok |-> TRUE]
FieldHumidity(reading) ==
    IF reading.relative_humidity_pc # RHUM_NAN
    THEN snprintf(<<"&", "h", "=">>
                  \o utoa(reading.relative_humidity_pc \div RHUM_DIV)
                  \o <<".">>
                  \o utoa02((reading.relative_humidity_pc % RHUM_DIV) * RHUM_MUL))
    ELSE [text |-> <<"&", "h", "=">>, ok |-> TRUE]
FieldCO2(reading) ==
    IF reading.co2_ppm # CO2_NAN
    THEN snprintf(<<"&", "c", "=">>
                  \o utoa(reading.co2_ppm \div CO2_DIV)
                  \o <<".">>
                  \o utoa02((reading.co2_ppm % CO2_DIV) * CO2_MUL))
    ELSE [text |-> <<"&", "c", "=">>, ok |-> TRUE]

\* One pass of the loop body up to the size check: the reading's text, or
\* ok = FALSE when one of the snprintf checks breaks out of the loop.
EncodeReading(reading) ==
    LET s == FieldTimestamp(reading)
        t == FieldTemperature(reading)
        h == FieldHumidity(reading)
        c == FieldCO2(reading)
    IN  [ok |-> s.ok /\ t.ok /\ h.ok /\ c.ok,
         text |-> s.text \o t.text \o h.text \o c.text]

\* The length of the payload before the first reading: u=, &p=, &n= and the
\* three configured strings (each modelled by its length).
PayloadHeaderLength(r) == 2 + r.username_ + 3 + r.password_ + 3 + r.sensor_name_

RECURSIVE EncodeLoop(_, _, _)
\* for (const auto &reading : readings_) { ... }: b is the batch so far,
\* [count, length, first, last, segments].
EncodeLoop(readings, i, b) ==
    IF i > Len(readings) THEN b
    ELSE LET reading == readings[i]
             enc == EncodeReading(reading)
         IN  IF ~enc.ok THEN b
             ELSE IF b.count > 0 /\ b.length + Len(enc.text) > MAXIMUM_UPLOAD_BYTES THEN b
             ELSE EncodeLoop(readings, i + 1,
                    [count |-> b.count + 1,
                     length |-> b.length + Len(enc.text),
                     first |-> IF b.first = 0 THEN reading.timestamp ELSE b.first,
                     last |-> reading.timestamp,
                     segments |-> Append(b.segments, enc.text)])

\* Mutant of EncodePayload: the size check does not count the header.
EncodePayload_no_header(r) ==
    EncodeLoop(r.readings_, 1,
        [count |-> 0, length |-> 0, first |-> 0, last |-> 0, segments |-> <<>>])

EncodePayload(r) ==
    EncodeLoop(r.readings_, 1,
        [count |-> 0, length |-> PayloadHeaderLength(r), first |-> 0, last |-> 0,
         segments |-> <<>>])

(***************************************************************************)
(* Report::upload(bool begin).  `in` is what the HTTP exchange answers if  *)
(* this step makes one: in.response is the return value of POST(),         *)
(* in.body the result of getString().                                      *)
(***************************************************************************)
\* Mutant of upload_IDLE: the periodic tick starts a batch as well.
upload_IDLE_any_tick(r, begin) ==
    IF r.enabled_ /\ Len(r.readings_) >= r.threshold_
    THEN [r EXCEPT !.state_ = "CONNECT"]
    ELSE r

\* Mutant of upload_IDLE: no new batch once a batch has been attempted.
upload_IDLE_backoff(r, begin) ==
    IF begin /\ r.enabled_ /\ Len(r.readings_) >= r.threshold_
             /\ r.upload_ts_first_ = 0
    THEN [r EXCEPT !.state_ = "CONNECT"]
    ELSE r

upload_IDLE(r, begin) ==
    IF begin /\ r.enabled_ /\ Len(r.readings_) >= r.threshold_
    THEN [r EXCEPT !.state_ = "CONNECT"]
    ELSE r

upload_CONNECT(r) == [http_begin(r) EXCEPT !.state_ = "SEND"]

\* Mutant of upload_SEND: a failed POST is sent again (the state stays SEND).
upload_SEND_retries(r, in) ==
    LET b == EncodePayload(r)
        r1 == [r EXCEPT !.upload_ts_first_ = b.first, !.upload_ts_last_ = b.last]
    IN  IF r1.upload_ts_first_ = 0
        THEN [Log(r1, Ev("err")) EXCEPT !.state_ = "IDLE"]
        ELSE LET r2 == Log(Log(r1, Ev("addHeader")), EvPost(in.response))
             IN  IF in.response = HTTP_CODE_OK
                 THEN [r2 EXCEPT !.state_ = "RECEIVE"]
                 ELSE Log(r2, Ev("err"))

\* Mutant of upload_SEND: a failed POST drops the batch it could not send.
upload_SEND_drops(r, in) ==
    LET b == EncodePayload(r)
        r1 == [r EXCEPT !.upload_ts_first_ = b.first, !.upload_ts_last_ = b.last]
    IN  IF r1.upload_ts_first_ = 0
        THEN [Log(r1, Ev("err")) EXCEPT !.state_ = "IDLE"]
        ELSE LET r2 == Log(Log(r1, Ev("addHeader")), EvPost(in.response))
             IN  IF in.response = HTTP_CODE_OK
                 THEN [r2 EXCEPT !.state_ = "RECEIVE"]
                 ELSE [http_end(Log(r2, Ev("err"))) EXCEPT
                         !.state_ = "IDLE",
                         !.readings_ = SelectSeq(@, LAMBDA x : x.timestamp > b.last)]

upload_SEND(r, in) ==
    LET b == EncodePayload(r)
        r1 == [r EXCEPT !.upload_ts_first_ = b.first, !.upload_ts_last_ = b.last]
    IN  IF r1.upload_ts_first_ = 0
        THEN [Log(r1, Ev("err")) EXCEPT !.state_ = "IDLE"]
        ELSE LET r2 == Log(Log(r1, Ev("addHeader")), EvPost(in.response))
             IN  IF in.response = HTTP_CODE_OK
                 THEN [r2 EXCEPT !.state_ = "RECEIVE"]
                 ELSE IF in.response >= 0
                 THEN [http_end(Log(r2, Ev("err"))) EXCEPT !.state_ = "IDLE"]
                 ELSE [http_end(Log(r2, Ev("err"))) EXCEPT !.state_ = "IDLE"]

\* Mutant of upload_RECEIVE: any response body counts as the acknowledgement.
upload_RECEIVE_any_body(r, in) ==
    http_end([Log(r, EvGetString(in.body)) EXCEPT !.state_ = "CLEANUP"])

upload_RECEIVE(r, in) ==
    LET r1 == Log(r, EvGetString(in.body))
        r2 == IF in.body = ACK
              THEN [r1 EXCEPT !.state_ = "CLEANUP"]
              ELSE [Log(r1, Ev("err")) EXCEPT !.state_ = "IDLE"]
    IN  http_end(r2)

RECURSIVE upload_remove_before(_)
\* Mutant of upload_remove: < for <=, the last reading of the batch stays.
upload_remove_before(r) ==
    IF r.readings_ # <<>> /\ Head(r.readings_).timestamp < r.upload_ts_last_
    THEN upload_remove_before(Log([r EXCEPT !.readings_ = Tail(@)], Ev("remove")))
    ELSE r

RECURSIVE upload_remove(_)
\* while (!readings_.empty() && readings_.front().timestamp <= upload_ts_last_)
upload_remove(r) ==
    IF r.readings_ # <<>> /\ Head(r.readings_).timestamp <= r.upload_ts_last_
    THEN upload_remove(Log([r EXCEPT !.readings_ = Tail(@)], Ev("remove")))
    ELSE r

\* Mutant of upload_CLEANUP: the state stays CLEANUP.
upload_CLEANUP_stays(r) == upload_remove(r)

\* Mutant of upload_CLEANUP: no reading is removed.
upload_CLEANUP_keeps(r) == [r EXCEPT !.state_ = "IDLE"]

upload_CLEANUP(r) == [upload_remove(r) EXCEPT !.state_ = "IDLE"]

upload(r, begin, in) ==
    CASE r.state_ = "IDLE" -> upload_IDLE(r, begin)
      [] r.state_ = "CONNECT" -> upload_CONNECT(r)
      [] r.state_ = "SEND" -> upload_SEND(r, in)
      [] r.state_ = "RECEIVE" -> upload_RECEIVE(r, in)
      [] r.state_ = "CLEANUP" -> upload_CLEANUP(r)

(***************************************************************************)
(* Report::add()                                                           *)
(***************************************************************************)
RECURSIVE add_discard_early(_)
\* Mutant of add_discard: room is made one reading before the buffer is full.
add_discard_early(r) ==
    IF Len(r.readings_) >= MAXIMUM_STORE_READINGS - 1
    THEN LET r1 == IF ~r.overflow_
                   THEN [Log(r, Ev("alert")) EXCEPT !.overflow_ = TRUE]
                   ELSE r
         IN  add_discard_early(Log([r1 EXCEPT !.readings_ = Tail(@)], Ev("discard")))
    ELSE r

RECURSIVE add_discard_late(_)
\* Mutant of add_discard: > for >=, the buffer grows one past its capacity.
add_discard_late(r) ==
    IF Len(r.readings_) > MAXIMUM_STORE_READINGS
    THEN LET r1 == IF ~r.overflow_
                   THEN [Log(r, Ev("alert")) EXCEPT !.overflow_ = TRUE]
                   ELSE r
         IN  add_discard_late(Log([r1 EXCEPT !.readings_ = Tail(@)], Ev("discard")))
    ELSE r

RECURSIVE add_discard(_)
\* while (readings_.size() >= MAXIMUM_STORE_READINGS) { ... pop_front(); }
add_discard(r) ==
    IF Len(r.readings_) >= MAXIMUM_STORE_READINGS
    THEN LET r1 == IF ~r.overflow_
                   THEN [Log(r, Ev("alert")) EXCEPT !.overflow_ = TRUE]
                   ELSE r
         IN  add_discard(Log([r1 EXCEPT !.readings_ = Tail(@)], Ev("discard")))
    ELSE r

\* Mutant of add_rejects: > for >=, a reading of the last stored time is kept.
add_rejects_older(r, timestamp) ==
    \/ timestamp < BASELINE
    \/ /\ r.readings_ # <<>>
       /\ r.readings_[Len(r.readings_)].timestamp > timestamp

\* Mutant of add_rejects: the baseline is not checked.
add_rejects_no_baseline(r, timestamp) ==
    /\ r.readings_ # <<>>
    /\ r.readings_[Len(r.readings_)].timestamp >= timestamp

add_rejects(r, timestamp) ==
    \/ timestamp < BASELINE
    \/ /\ r.readings_ # <<>>
       /\ r.readings_[Len(r.readings_)].timestamp >= timestamp

add(r, timestamp, temperature_c, relative_humidity_pc, co2_ppm, in) ==
    IF add_rejects(r, timestamp) THEN r
    ELSE LET r1 == add_discard(r)
             r2 == Log([r1 EXCEPT !.readings_ =
                          Append(@, Reading(timestamp, temperature_c,
                                            relative_humidity_pc, co2_ppm))],
                       Ev("emplace"))
         IN  upload(r2, TRUE, in)

(***************************************************************************)
(* Report::loop()                                                          *)
(***************************************************************************)
\* Mutant of loop: the overflow flag is cleared on every tick.
loop_clears_overflow(r, in) ==
    IF r.readings_ = <<>>
    THEN [r EXCEPT !.overflow_ = FALSE]
    ELSE upload([r EXCEPT !.overflow_ = FALSE], FALSE, in)

\* Mutant of loop: a tick takes two steps of the pipeline.
loop_two_steps(r, in) ==
    IF r.readings_ = <<>>
    THEN [r EXCEPT !.overflow_ = FALSE]
    ELSE upload(upload(r, FALSE, in), FALSE, in)

loop(r, in) ==
    IF r.readings_ = <<>>
    THEN [r EXCEPT !.overflow_ = FALSE]
    ELSE upload(r, FALSE, in)

(***************************************************************************)
(* Report::config().  c is what the Config getters return; a string of     *)
(* which only the length is read is given by its length.                   *)
(***************************************************************************)
\* Mutant of config_enabled: the password is not checked.
config_enabled_no_password(c) ==
    LET e0 == c.report_enabled
        e1 == IF c.report_threshold = 0 THEN FALSE ELSE e0
        e2 == IF \/ c.report_url = <<>>
                 \/ /\ ~StartsWith(c.report_url, HTTPS_PREFIX)
                    /\ ~StartsWith(c.report_url, HTTP_PREFIX)
              THEN FALSE ELSE e1
        e3 == IF c.report_username = 0 THEN FALSE ELSE e2
        e5 == IF c.report_sensor_name = 0 THEN FALSE ELSE e3
    IN  e5

config_enabled(c) ==
    LET e0 == c.report_enabled
        e1 == IF c.report_threshold = 0 THEN FALSE ELSE e0
        e2 == IF \/ c.report_url = <<>>
                 \/ /\ ~StartsWith(c.report_url, HTTPS_PREFIX)
                    /\ ~StartsWith(c.report_url, HTTP_PREFIX)
              THEN FALSE ELSE e1
        e3 == IF c.report_username = 0 THEN FALSE ELSE e2
        e4 == IF c.report_password = 0 THEN FALSE ELSE e3
        e5 == IF c.report_sensor_name = 0 THEN FALSE ELSE e4
    IN  e5

\* Mutant of config: called in CLEANUP, the readings of the acknowledged
\* batch are removed before the state is set.
config_prunes(r, c) ==
    LET was_enabled == r.enabled_
        r1 == [r EXCEPT !.enabled_ = config_enabled(c),
                        !.threshold_ = c.report_threshold,
                        !.url_ = c.report_url,
                        !.username_ = c.report_username,
                        !.password_ = c.report_password,
                        !.sensor_name_ = c.report_sensor_name]
        r2 == IF was_enabled # r1.enabled_ THEN Log(r1, Ev("info")) ELSE r1
        r3 == IF /\ StateOrd(r2.state_) > StateOrd("CONNECT")
                 /\ StateOrd(r2.state_) < StateOrd("CLEANUP")
              THEN http_end(r2)
              ELSE r2
        r4 == IF r3.state_ = "CLEANUP"
              THEN [r3 EXCEPT !.readings_ =
                       SelectSeq(@, LAMBDA x : x.timestamp > r3.upload_ts_last_)]
              ELSE r3
    IN  [r4 EXCEPT !.state_ = "IDLE"]

\* Mutant of config: the connection of an upload under way is left open.
config_leaves_open(r, c) ==
    LET was_enabled == r.enabled_
        r1 == [r EXCEPT !.enabled_ = config_enabled(c),
                        !.threshold_ = c.report_threshold,
                        !.url_ = c.report_url,
                        !.username_ = c.report_username,
                        !.password_ = c.report_password,
                        !.sensor_name_ = c.report_sensor_name]
        r2 == IF was_enabled # r1.enabled_ THEN Log(r1, Ev("info")) ELSE r1
    IN  [r2 EXCEPT !.state_ = "IDLE"]

config(r, c) ==
    LET was_enabled == r.enabled_
        r1 == [r EXCEPT !.enabled_ = config_enabled(c),
                        !.threshold_ = c.report_threshold,
                        !.url_ = c.report_url,
                        !.username_ = c.report_username,
                        !.password_ = c.report_password,
                        !.sensor_name_ = c.report_sensor_name]
        r2 == IF was_enabled # r1.enabled_ THEN Log(r1, Ev("info")) ELSE r1
        r3 == IF /\ StateOrd(r2.state_) > StateOrd("CONNECT")
                 /\ StateOrd(r2.state_) < StateOrd("CLEANUP")
              THEN http_end(r2)
              ELSE r2
    IN  [r3 EXCEPT !.state_ = "IDLE"]

(***************************************************************************)
(* The sensor controller (scd30::Sensor).                                  *)
(*                                                                         *)
(* The Sensor object is the record `sensor`, one field per data member.    *)
(* Sensor::start(), config(), reset(), calibrate() and loop() are          *)
(* operators from a Sensor record to a Sensor record; what a handler does  *)
(* to its collaborators (the Modbus client, the clocks, the ready pin, the *)
(* Report object, the logger) is logged in the record's obs field.         *)
(***************************************************************************)
RESET_PRE_DELAY_MS == 60000
RESET_POST_DELAY_MS == 5000
MEASUREMENT_TIMEOUT_MS == 30000

\* ::millis() is an unsigned counter that wraps, and the code subtracts
\* two of its values in unsigned arithmetic.  The counter of the model wraps
\* at MillisModulus, above every delay the code waits for.
MillisModulus == 2 * RESET_PRE_DELAY_MS
Elapsed(ms, start_ms) == (ms - start_ms) % MillisModulus

FIRMWARE_VERSION_ADDRESS == 32
MEASUREMENT_INTERVAL_ADDRESS == 37
MEASUREMENT_DATA_ADDRESS == 40
SOFT_RESET_ADDRESS == 52
AMBIENT_PRESSURE_ADDRESS == 54
ALTITUDE_COMPENSATION_ADDRESS == 56
FORCED_RECALIBRATION_ADDRESS == 57
ASC_CONFIG_ADDRESS == 58
TEMPERATURE_OFFSET_ADDRESS == 59

MINIMUM_CO2_PPM == 200
MINIMUM_CALIBRATION_PPM == 400
MAXIMUM_CALIBRATION_PPM == 2000

UINT8_MAX == 255
UINT16_MAX == 65535

\* enum Operation, in the order of the enumerators' values (NONE is 32,
\* above all of them).
Operations ==
    <<"SOFT_RESET", "READ_FIRMWARE_VERSION", "CONFIG_AUTOMATIC_CALIBRATION",
      "CONFIG_TEMPERATURE_OFFSET", "CONFIG_ALTITUDE_COMPENSATION",
      "CONFIG_CONTINUOUS_MEASUREMENT", "CONFIG_AMBIENT_PRESSURE",
      "CALIBRATE", "TAKE_MEASUREMENT">>

\* static_cast<size_t>(operation) + 1
OperationBit(op) == CHOOSE i \in DOMAIN Operations : Operations[i] = op

\* Mutant of ffs: the highest bit set.
ffs_highest(pending) ==
    Operations[CHOOSE i \in DOMAIN Operations :
                  /\ Operations[i] \in pending
                  /\ \A j \in DOMAIN Operations :
                        Operations[j] \in pending => i >= j]

\* static_cast<Operation>(ffs(pending_operations_.to_ulong()) - 1): the
\* operation of the lowest bit set.
ffs(pending) ==
    Operations[CHOOSE i \in DOMAIN Operations :
                  /\ Operations[i] \in pending
                  /\ \A j \in DOMAIN Operations :
                        Operations[j] \in pending => i <= j]

\* Sensor::config_operations_, as the constructor sets it.
config_operations_ ==
    {"CONFIG_AUTOMATIC_CALIBRATION", "CONFIG_TEMPERATURE_OFFSET",
     "CONFIG_ALTITUDE_COMPENSATION", "CONFIG_CONTINUOUS_MEASUREMENT",
     "CONFIG_AMBIENT_PRESSURE"}

\* The bits of an IEEE 754 single, as two registers: a sign bit, eight
\* exponent bits and the seven high bits of the fraction in data[0], the
\* sixteen low bits of the fraction in data[1].
Scale(x, k) == IF k >= 0 THEN x * (2 ^ k) ELSE x \div (2 ^ (-k))

\* convert_f(data): temp.u32 = (data[0] << 16) | data[1], read as a float.
convert_f(data) ==
    LET sign == data[1] \div 32768
        exponent == (data[1] \div 128) % 256
        high == data[1] % 128
        low == data[2]
        milli == Scale(1000 * (128 + high), exponent - 134)
                   + Scale(1000 * low, exponent - 150)
    IN  IF exponent = 255
        THEN IF high = 0 /\ low = 0
             THEN IF sign = 1 THEN FloatNegInf ELSE FloatInf
             ELSE FloatNaN
        ELSE IF exponent = 0
        THEN IF high = 0 /\ low = 0 THEN FloatZero
             ELSE [cls |-> "subnormal", v |-> 0]
        ELSE [cls |-> "normal", v |-> IF sign = 1 THEN -milli ELSE milli]

\* co2 >= MINIMUM_CO2_PPM, on floats.
FloatGeq(f, n) ==
    \/ f.cls = "inf"
    \/ f.cls = "normal" /\ f.v >= n * 1000
    \/ f.cls \in {"zero", "subnormal"} /\ 0 >= n

(***************************************************************************)
(* std::shared_ptr<const uuid::modbus::Response> response_: no response,   *)
(* or the response to a read or a write request, which is done or not and  *)
(* holds the registers received.                                           *)
(***************************************************************************)
NoResponse ==
    [kind |-> "none", address |-> 0, count |-> 0, value |-> 0,
     done |-> FALSE, data |-> <<>>]

\* One entry of obs: a call on a collaborator or a log line.
SEv(name, a, v) == [op |-> name, address |-> a, value |-> v, args |-> <<>>]
SLog(s, e) == [s EXCEPT !.obs = Append(@, e)]

\* client_.read_holding_registers(DEVICE_ADDRESS, address, count)
read_holding_registers(s, address_, count_) ==
    SLog([s EXCEPT !.response_ =
            [kind |-> "read", address |-> address_, count |-> count_,
             value |-> 0, done |-> FALSE, data |-> <<>>]],
         SEv("read", address_, count_))

\* client_.write_holding_register(DEVICE_ADDRESS, address, value)
write_holding_register(s, address_, value_) ==
    SLog([s EXCEPT !.response_ =
            [kind |-> "write", address |-> address_, count |-> 1,
             value |-> value_, done |-> FALSE, data |-> <<>>]],
         SEv("write", address_, value_))

(***************************************************************************)
(* The value functions: what the Config getters return is the record c.    *)
(***************************************************************************)
automatic_calibration(c) == IF c.sensor_automatic_calibration THEN 1 ELSE 0
temperature_offset(c) == Max(0, Min(UINT16_MAX, c.sensor_temperature_offset))
altitude_compensation(c) == Max(0, Min(UINT16_MAX, c.sensor_altitude_compensation))
measurement_interval(c) == Max(2, Min(1800, c.sensor_measurement_interval))
\* Mutant of ambient_pressure: no lower limit.
ambient_pressure_no_minimum(c) == Min(1200, c.sensor_ambient_pressure)

ambient_pressure(c) ==
    LET value == c.sensor_ambient_pressure
    IN  IF value = 0 THEN value ELSE Max(700, Min(1200, value))

(***************************************************************************)
(* Sensor::config(), start(), reset() and calibrate().                     *)
(***************************************************************************)
RECURSIVE Sensor_config_set(_, _)
\* for (auto operation : operations) { if (config_operations_[...]) ... }
Sensor_config_set(pending, operations) ==
    IF operations = <<>> THEN pending
    ELSE Sensor_config_set(
            IF Head(operations) \in config_operations_
            THEN pending \cup {Head(operations)}
            ELSE pending,
            Tail(operations))

\* Mutant of Sensor_config: every operation listed is made pending.
Sensor_config_any_operation(s, operations, c) ==
    [s EXCEPT
       !.pending_operations_ =
          IF Len(operations) = 0
          THEN @ \cup config_operations_
          ELSE @ \cup {operations[i] : i \in DOMAIN operations},
       !.interval_ = Max(0, Min(UINT8_MAX, c.take_measurement_interval))]

\* Mutant of Sensor_config: an operation that is current is not made
\* pending.
Sensor_config_skips_current(s, operations, c) ==
    [s EXCEPT
       !.pending_operations_ =
          (IF Len(operations) = 0
           THEN @ \cup config_operations_
           ELSE Sensor_config_set(@, operations)) \ {s.current_operation_},
       !.interval_ = Max(0, Min(UINT8_MAX, c.take_measurement_interval))]

Sensor_config(s, operations, c) ==
    [s EXCEPT
       !.pending_operations_ =
          IF Len(operations) = 0
          THEN @ \cup config_operations_
          ELSE Sensor_config_set(@, operations),
       !.interval_ = Max(0, Min(UINT8_MAX, c.take_measurement_interval))]

Sensor_start(s, c) ==
    Sensor_config([s EXCEPT !.pending_operations_ =
                              @ \cup {"READ_FIRMWARE_VERSION"}],
                  <<>>, c)

\* Mutant of Sensor_reset: the operation in progress is kept.
Sensor_reset_keeps_operation(s, wait_ms, c, ms) ==
    LET s1 == [SLog(s, SEv("reset", 0, wait_ms)) EXCEPT
                 !.pending_operations_ = {"SOFT_RESET"}]
        s2 == Sensor_start(s1, c)
    IN  [s2 EXCEPT !.reset_start_ms_ = ms,
                   !.reset_wait_ms_ = wait_ms,
                   !.last_reading_s_ = 0,
                   !.measurement_status_ = "PENDING"]

\* Mutant of Sensor_reset: a pending calibration is kept.
Sensor_reset_keeps_calibrate(s, wait_ms, c, ms) ==
    LET s1 == [SLog(s, SEv("reset", 0, wait_ms)) EXCEPT
                 !.pending_operations_ = {"SOFT_RESET"} \cup (@ \cap {"CALIBRATE"}),
                 !.current_operation_ = "NONE",
                 !.response_ = NoResponse]
        s2 == Sensor_start(s1, c)
    IN  [s2 EXCEPT !.reset_start_ms_ = ms,
                   !.reset_wait_ms_ = wait_ms,
                   !.last_reading_s_ = 0,
                   !.measurement_status_ = "PENDING"]

\* Mutant of Sensor_reset: the measurement status is left as it is.
Sensor_reset_keeps_status(s, wait_ms, c, ms) ==
    LET s1 == [SLog(s, SEv("reset", 0, wait_ms)) EXCEPT
                 !.pending_operations_ = {"SOFT_RESET"},
                 !.current_operation_ = "NONE",
                 !.response_ = NoResponse]
        s2 == Sensor_start(s1, c)
    IN  [s2 EXCEPT !.reset_start_ms_ = ms,
                   !.reset_wait_ms_ = wait_ms,
                   !.last_reading_s_ = 0]

\* c is what the Config getters return, ms what ::millis() returns.
Sensor_reset(s, wait_ms, c, ms) ==
    LET s1 == [SLog(s, SEv("reset", 0, wait_ms)) EXCEPT
                 !.pending_operations_ = {"SOFT_RESET"},
                 !.current_operation_ = "NONE",
                 !.response_ = NoResponse]
        s2 == Sensor_start(s1, c)
    IN  [s2 EXCEPT !.reset_start_ms_ = ms,
                   !.reset_wait_ms_ = wait_ms,
                   !.last_reading_s_ = 0,
                   !.measurement_status_ = "PENDING"]

\* Mutant of calibrate: the value is not checked against the range.
calibrate_unchecked(s, ppm) ==
    [s EXCEPT !.calibration_ppm_ = ppm,
              !.pending_operations_ = @ \cup {"CALIBRATE"}]

calibrate(s, ppm) ==
    LET value == Max(MINIMUM_CALIBRATION_PPM, Min(MAXIMUM_CALIBRATION_PPM, ppm))
    IN  IF ppm = value
        THEN [s EXCEPT !.calibration_ppm_ = value,
                       !.pending_operations_ = @ \cup {"CALIBRATE"}]
        ELSE s

(***************************************************************************)
(* Sensor::loop().  `in` is what the outside answers during the call:      *)
(*   in.ms       ::millis()                                                *)
(*   in.now      current_time()                                            *)
(*   in.ready    digitalRead(ready_pin_) == HIGH                           *)
(*   in.outcome  what client_.loop() does to a request that is not done:   *)
(*               "none" (still not done), "full" (done, every register),   *)
(*               "short" (done, one register fewer than requested),        *)
(*               "wrong" (done, a write acknowledged with another value)   *)
(*   in.device   the registers the device holds                            *)
(***************************************************************************)
\* The data of the response to a request, when it is done.
ResponseData(response, in) ==
    LET full ==
            IF response.kind = "write"
            THEN IF in.outcome = "wrong"
                 THEN <<IF response.value = 0 THEN 1 ELSE 0>>
                 ELSE <<response.value>>
            ELSE IF response.address = MEASUREMENT_DATA_ADDRESS
            THEN in.device.measurement
            ELSE <<in.device.registers[response.address]>>
    IN  IF in.outcome = "short"
        THEN SubSeq(full, 1, Len(full) - 1)
        ELSE full

\* client_.loop(): a request that is outstanding may complete, and obs gets
\* what it completed with: the request (address, count) and the registers.
client_loop(s, in) ==
    IF s.response_.kind # "none" /\ ~s.response_.done /\ in.outcome # "none"
    THEN LET data == ResponseData(s.response_, in)
         IN  SLog([s EXCEPT !.response_.done = TRUE,
                            !.response_.data = data],
                  [op |-> IF s.response_.kind = "read"
                          THEN "read_done" ELSE "write_done",
                   address |-> s.response_.address,
                   value |-> s.response_.count,
                   args |-> data])
    ELSE s

\* Mutant of loop_finish: the response is kept.
loop_finish_keeps_response(s) ==
    [s EXCEPT !.current_operation_ = "NONE"]

\* Mutant of loop_finish: the operation stays current.
loop_finish_stays_current(s) ==
    [s EXCEPT !.response_ = NoResponse]

\* response_.reset(); current_operation_ = Operation::NONE;
loop_finish(s) ==
    [s EXCEPT !.response_ = NoResponse, !.current_operation_ = "NONE"]

\* Mutant of loop_take_measurement: the measurement status is not looked at.
loop_take_measurement_any_status(s, in) ==
    IF s.interval_ > 0
    THEN LET now == in.now
         IN  IF now > s.last_reading_s_ /\ now % s.interval_ = 0
             THEN [SLog(s, SEv("Take measurement", 0, now)) EXCEPT
                     !.pending_operations_ = @ \cup {"TAKE_MEASUREMENT"},
                     !.measurement_status_ = "PENDING"]
             ELSE s
    ELSE s

\* The head of loop(): TAKE_MEASUREMENT becomes pending when one is due.
\* obs gets the line logged, with what current_time() returned.
loop_take_measurement(s, in) ==
    IF s.measurement_status_ = "IDLE" /\ s.interval_ > 0
    THEN LET now == in.now
         IN  IF now > s.last_reading_s_ /\ now % s.interval_ = 0
             THEN [SLog(s, SEv("Take measurement", 0, now)) EXCEPT
                     !.pending_operations_ = @ \cup {"TAKE_MEASUREMENT"},
                     !.measurement_status_ = "PENDING"]
             ELSE s
    ELSE s

\* Mutant of loop_NONE: the bit of the selected operation stays set.
loop_NONE_keeps_pending(s) ==
    IF s.pending_operations_ # {}
    THEN [s EXCEPT !.current_operation_ = ffs(s.pending_operations_)]
    ELSE s

\* case Operation::NONE, up to the goto.
loop_NONE(s) ==
    IF s.pending_operations_ # {}
    THEN LET operation == ffs(s.pending_operations_)
         IN  [s EXCEPT !.current_operation_ = operation,
                       !.pending_operations_ = @ \ {operation}]
    ELSE s

\* Mutant of loop_SOFT_RESET: the operation is over in the call that sees
\* the acknowledgement.
loop_SOFT_RESET_no_post_delay(s, c, in) ==
    IF s.response_.kind = "none"
    THEN IF Elapsed(in.ms, s.reset_start_ms_) >= s.reset_wait_ms_
         THEN [write_holding_register(SLog(s, SEv("debug", 0, 0)),
                                      SOFT_RESET_ADDRESS, 1)
                 EXCEPT !.reset_complete_ = FALSE]
         ELSE s
    ELSE IF s.response_.done
    THEN IF Len(s.response_.data) < 1 \/ s.response_.data[1] # 1
         THEN Sensor_reset(SLog(s, SEv("emerg", 0, 0)), RESET_PRE_DELAY_MS, c, in.ms)
         ELSE [loop_finish(SLog(s, SEv("info", 0, 0))) EXCEPT
                 !.reset_start_ms_ = in.ms,
                 !.reset_complete_ = TRUE,
                 !.measurement_status_ = "IDLE"]
    ELSE s

\* Mutant of loop_SOFT_RESET: the end of the reset leaves the measurement
\* status as it is.
loop_SOFT_RESET_keeps_status(s, c, in) ==
    IF s.response_.kind = "none"
    THEN IF Elapsed(in.ms, s.reset_start_ms_) >= s.reset_wait_ms_
         THEN [write_holding_register(SLog(s, SEv("debug", 0, 0)),
                                      SOFT_RESET_ADDRESS, 1)
                 EXCEPT !.reset_complete_ = FALSE]
         ELSE s
    ELSE IF s.response_.done
    THEN IF Len(s.response_.data) < 1 \/ s.response_.data[1] # 1
         THEN Sensor_reset(SLog(s, SEv("emerg", 0, 0)), RESET_PRE_DELAY_MS, c, in.ms)
         ELSE IF ~s.reset_complete_
         THEN [SLog(s, SEv("info", 0, 0)) EXCEPT
                 !.reset_start_ms_ = in.ms,
                 !.reset_complete_ = TRUE]
         ELSE IF Elapsed(in.ms, s.reset_start_ms_) >= RESET_POST_DELAY_MS
         THEN loop_finish(s)
         ELSE s
    ELSE s

loop_SOFT_RESET(s, c, in) ==
    IF s.response_.kind = "none"
    THEN IF Elapsed(in.ms, s.reset_start_ms_) >= s.reset_wait_ms_
         THEN [write_holding_register(SLog(s, SEv("debug", 0, 0)),
                                      SOFT_RESET_ADDRESS, 1)
                 EXCEPT !.reset_complete_ = FALSE]
         ELSE s
    ELSE IF s.response_.done
    THEN IF Len(s.response_.data) < 1 \/ s.response_.data[1] # 1
         THEN Sensor_reset(SLog(s, SEv("emerg", 0, 0)), RESET_PRE_DELAY_MS, c, in.ms)
         ELSE IF ~s.reset_complete_
         THEN [SLog(s, SEv("info", 0, 0)) EXCEPT
                 !.reset_start_ms_ = in.ms,
                 !.reset_complete_ = TRUE]
         ELSE IF Elapsed(in.ms, s.reset_start_ms_) >= RESET_POST_DELAY_MS
         THEN [loop_finish(s) EXCEPT !.measurement_status_ = "IDLE"]
         ELSE s
    ELSE s

loop_READ_FIRMWARE_VERSION(s, c, in) ==
    IF s.response_.kind = "none"
    THEN read_holding_registers(SLog(s, SEv("debug", 0, 0)),
                                FIRMWARE_VERSION_ADDRESS, 1)
    ELSE IF s.response_.done
    THEN IF Len(s.response_.data) < 1
         THEN Sensor_reset(SLog(s, SEv("warning", 0, 0)), RESET_PRE_DELAY_MS, c, in.ms)
         ELSE loop_finish(
                [SLog(s, SEv("debug", 0, 0)) EXCEPT
                   !.firmware_major_ = s.response_.data[1] \div 256,
                   !.firmware_minor_ = s.response_.data[1] % 256])
    ELSE s

\* Mutant of update_config_register: a write that is acknowledged with no
\* register finishes the operation.
update_config_register_accepts_short_ack(s, c, in, address, always_write, value) ==
    IF s.response_.kind = "none"
    THEN read_holding_registers(SLog(s, SEv("debug", 0, 0)), address, 1)
    ELSE IF s.response_.done
    THEN IF s.response_.kind = "write"
         THEN loop_finish(SLog(s, SEv("info", 0, 0)))
         ELSE IF Len(s.response_.data) < 1
              THEN Sensor_reset(SLog(s, SEv("crit", 0, 0)), RESET_PRE_DELAY_MS, c, in.ms)
              ELSE IF s.response_.data[1] = value /\ ~always_write
              THEN loop_finish(SLog(s, SEv("debug", 0, 0)))
              ELSE write_holding_register(SLog(s, SEv("info", 0, 0)),
                                          address, value)
    ELSE s

\* Mutant of update_config_register: always_write is not looked at.
update_config_register_never_always(s, c, in, address, always_write, value) ==
    IF s.response_.kind = "none"
    THEN read_holding_registers(SLog(s, SEv("debug", 0, 0)), address, 1)
    ELSE IF s.response_.done
    THEN IF s.response_.kind = "write"
         THEN IF Len(s.response_.data) < 1
              THEN Sensor_reset(SLog(s, SEv("crit", 0, 0)), RESET_PRE_DELAY_MS, c, in.ms)
              ELSE loop_finish(SLog(s, SEv("info", 0, 0)))
         ELSE IF Len(s.response_.data) < 1
              THEN Sensor_reset(SLog(s, SEv("crit", 0, 0)), RESET_PRE_DELAY_MS, c, in.ms)
              ELSE IF s.response_.data[1] = value
              THEN loop_finish(SLog(s, SEv("debug", 0, 0)))
              ELSE write_holding_register(SLog(s, SEv("info", 0, 0)),
                                          address, value)
    ELSE s

\* value is what func_cfg_value() returns if it is called.
update_config_register(s, c, in, address, always_write, value) ==
    IF s.response_.kind = "none"
    THEN read_holding_registers(SLog(s, SEv("debug", 0, 0)), address, 1)
    ELSE IF s.response_.done
    THEN IF s.response_.kind = "write"
         THEN IF Len(s.response_.data) < 1
              THEN Sensor_reset(SLog(s, SEv("crit", 0, 0)), RESET_PRE_DELAY_MS, c, in.ms)
              ELSE loop_finish(SLog(s, SEv("info", 0, 0)))
         ELSE IF Len(s.response_.data) < 1
              THEN Sensor_reset(SLog(s, SEv("crit", 0, 0)), RESET_PRE_DELAY_MS, c, in.ms)
              ELSE IF s.response_.data[1] = value /\ ~always_write
              THEN loop_finish(SLog(s, SEv("debug", 0, 0)))
              ELSE write_holding_register(SLog(s, SEv("info", 0, 0)),
                                          address, value)
    ELSE s

\* Mutant of loop_CALIBRATE: the acknowledgement does not end the operation.
loop_CALIBRATE_no_finish(s, c, in) ==
    IF s.response_.kind = "none"
    THEN write_holding_register(SLog(s, SEv("info", 0, 0)),
                                FORCED_RECALIBRATION_ADDRESS, s.calibration_ppm_)
    ELSE IF s.response_.done
    THEN IF Len(s.response_.data) < 1
         THEN Sensor_reset(SLog(s, SEv("crit", 0, 0)), RESET_PRE_DELAY_MS, c, in.ms)
         ELSE SLog(s, SEv("info", 0, 0))
    ELSE s

loop_CALIBRATE(s, c, in) ==
    IF s.response_.kind = "none"
    THEN write_holding_register(SLog(s, SEv("info", 0, 0)),
                                FORCED_RECALIBRATION_ADDRESS, s.calibration_ppm_)
    ELSE IF s.response_.done
    THEN IF Len(s.response_.data) < 1
         THEN Sensor_reset(SLog(s, SEv("crit", 0, 0)), RESET_PRE_DELAY_MS, c, in.ms)
         ELSE loop_finish(SLog(s, SEv("info", 0, 0)))
    ELSE s

\* report_.add(now, temperature_c_, relative_humidity_pc_, co2_ppm_)
report_add(s, now) ==
    SLog(s, [op |-> "add", address |-> 0, value |-> now,
             args |-> <<s.temperature_c_, s.relative_humidity_pc_, s.co2_ppm_>>])

\* Mutant of loop_TAKE_MEASUREMENT: the wait for the ready pin starts again
\* in every call that finds it low.
loop_TAKE_MEASUREMENT_restarts_wait(s, c, in) ==
    IF s.response_.kind = "none"
    THEN IF in.ready
         THEN read_holding_registers(SLog(s, SEv("trace", 0, 0)),
                                     MEASUREMENT_DATA_ADDRESS, 6)
         ELSE [s EXCEPT !.measurement_status_ = "WAITING",
                        !.measurement_start_ms_ = in.ms]
    ELSE IF s.response_.done
    THEN IF Len(s.response_.data) < 6
         THEN Sensor_reset(SLog(s, SEv("alert", 0, 0)), RESET_PRE_DELAY_MS, c, in.ms)
         ELSE LET now == in.now
                  data == s.response_.data
                  co2 == convert_f(SubSeq(data, 1, 2))
                  s1 == [SLog(SLog(s, SEv("current_time", 0, now)),
                              SEv("debug", 0, 0)) EXCEPT
                           !.temperature_c_ = convert_f(SubSeq(data, 3, 4)),
                           !.relative_humidity_pc_ = convert_f(SubSeq(data, 5, 6)),
                           !.co2_ppm_ = IF FloatGeq(co2, MINIMUM_CO2_PPM)
                                        THEN co2 ELSE FloatNaN]
                  s2 == report_add(s1, now)
              IN  loop_finish([s2 EXCEPT !.last_reading_s_ = now,
                                         !.measurement_status_ = "IDLE"])
    ELSE s

\* Mutant of loop_TAKE_MEASUREMENT: a reading whose CO2 is below
\* MINIMUM_CO2_PPM is not added.
loop_TAKE_MEASUREMENT_discards_low(s, c, in) ==
    IF s.response_.kind = "none"
    THEN IF in.ready
         THEN read_holding_registers(SLog(s, SEv("trace", 0, 0)),
                                     MEASUREMENT_DATA_ADDRESS, 6)
         ELSE IF s.measurement_status_ = "WAITING"
         THEN IF Elapsed(in.ms, s.measurement_start_ms_) >= MEASUREMENT_TIMEOUT_MS
              THEN Sensor_reset(SLog(s, SEv("alert", 0, 0)),
                                RESET_PRE_DELAY_MS, c, in.ms)
              ELSE s
         ELSE [s EXCEPT !.measurement_status_ = "WAITING",
                        !.measurement_start_ms_ = in.ms]
    ELSE IF s.response_.done
    THEN IF Len(s.response_.data) < 6
         THEN Sensor_reset(SLog(s, SEv("alert", 0, 0)), RESET_PRE_DELAY_MS, c, in.ms)
         ELSE LET now == in.now
                  data == s.response_.data
                  co2 == convert_f(SubSeq(data, 1, 2))
                  s1 == [SLog(SLog(s, SEv("current_time", 0, now)),
                              SEv("debug", 0, 0)) EXCEPT
                           !.temperature_c_ = convert_f(SubSeq(data, 3, 4)),
                           !.relative_humidity_pc_ = convert_f(SubSeq(data, 5, 6)),
                           !.co2_ppm_ = IF FloatGeq(co2, MINIMUM_CO2_PPM)
                                        THEN co2 ELSE FloatNaN]
                  s2 == IF FloatGeq(co2, MINIMUM_CO2_PPM)
                        THEN report_add(s1, now) ELSE s1
              IN  loop_finish([s2 EXCEPT !.last_reading_s_ = now,
                                         !.measurement_status_ = "IDLE"])
    ELSE s

\* obs gets what current_time() returned when the measurement completed.
loop_TAKE_MEASUREMENT(s, c, in) ==
    IF s.response_.kind = "none"
    THEN IF in.ready
         THEN read_holding_registers(SLog(s, SEv("trace", 0, 0)),
                                     MEASUREMENT_DATA_ADDRESS, 6)
         ELSE IF s.measurement_status_ = "WAITING"
         THEN IF Elapsed(in.ms, s.measurement_start_ms_) >= MEASUREMENT_TIMEOUT_MS
              THEN Sensor_reset(SLog(s, SEv("alert", 0, 0)),
                                RESET_PRE_DELAY_MS, c, in.ms)
              ELSE s
         ELSE [s EXCEPT !.measurement_status_ = "WAITING",
                        !.measurement_start_ms_ = in.ms]
    ELSE IF s.response_.done
    THEN IF Len(s.response_.data) < 6
         THEN Sensor_reset(SLog(s, SEv("alert", 0, 0)), RESET_PRE_DELAY_MS, c, in.ms)
         ELSE LET now == in.now
                  data == s.response_.data
                  co2 == convert_f(SubSeq(data, 1, 2))
                  s1 == [SLog(SLog(s, SEv("current_time", 0, now)),
                              SEv("debug", 0, 0)) EXCEPT
                           !.temperature_c_ = convert_f(SubSeq(data, 3, 4)),
                           !.relative_humidity_pc_ = convert_f(SubSeq(data, 5, 6)),
                           !.co2_ppm_ = IF FloatGeq(co2, MINIMUM_CO2_PPM)
                                        THEN co2 ELSE FloatNaN]
                  s2 == report_add(s1, now)
              IN  loop_finish([s2 EXCEPT !.last_reading_s_ = now,
                                         !.measurement_status_ = "IDLE"])
    ELSE s

Sensor_loop(s, c, in) ==
    LET s1 == client_loop(s, in)
        s2 == loop_take_measurement(s1, in)
        s3 == IF s2.current_operation_ = "NONE" THEN loop_NONE(s2) ELSE s2
        op == s3.current_operation_
    IN  CASE op = "NONE" -> s3
          [] op = "SOFT_RESET" -> loop_SOFT_RESET(s3, c, in)
          [] op = "READ_FIRMWARE_VERSION" -> loop_READ_FIRMWARE_VERSION(s3, c, in)
          [] op = "CONFIG_AUTOMATIC_CALIBRATION" ->
                update_config_register(s3, c, in, ASC_CONFIG_ADDRESS, FALSE,
                                       automatic_calibration(c))
          [] op = "CONFIG_TEMPERATURE_OFFSET" ->
                update_config_register(s3, c, in, TEMPERATURE_OFFSET_ADDRESS, FALSE,
                                       temperature_offset(c))
          [] op = "CONFIG_ALTITUDE_COMPENSATION" ->
                update_config_register(s3, c, in, ALTITUDE_COMPENSATION_ADDRESS, FALSE,
                                       altitude_compensation(c))
          [] op = "CONFIG_CONTINUOUS_MEASUREMENT" ->
                update_config_register(s3, c, in, MEASUREMENT_INTERVAL_ADDRESS, FALSE,
                                       measurement_interval(c))
          [] op = "CONFIG_AMBIENT_PRESSURE" ->
                update_config_register(s3, c, in, AMBIENT_PRESSURE_ADDRESS, TRUE,
                                       ambient_pressure(c))
          [] op = "CALIBRATE" -> loop_CALIBRATE(s3, c, in)
          [] op = "TAKE_MEASUREMENT" -> loop_TAKE_MEASUREMENT(s3, c, in)

(***************************************************************************)
(* State.                                                                  *)
(*   report  the Report object                                             *)
(*   last    history: the handler called last, the pipeline state it was   *)
(*           entered in, and its log                                       *)
(*   cycle   history: the upload cycle since CONNECT was entered last      *)
(*   added   history: the readings add() stored since the CLEANUP step     *)
(*           last removed one (since construction, before the first)       *)
(*   failed  history: the first timestamp of the batch whose upload failed *)
(*           last, and how many attempts in a row failed for it (capped),  *)
(*           until an upload is acknowledged                               *)
(***************************************************************************)
VARIABLES report, last, cycle, added, failed

(***************************************************************************)
(*   sensor    the Sensor object                                           *)
(*   clock     what ::millis() returned last                               *)
(*   settings  what the Config getters return                              *)
(*   slast     history: whether start() has run, and the log of the        *)
(*             handler of Sensor that ran last                             *)
(***************************************************************************)
VARIABLES sensor, clock, settings, slast

rvars == <<report, last, cycle, added, failed>>
svars == <<sensor, clock, settings, slast>>
vars == <<report, last, cycle, added, failed, sensor, clock, settings, slast>>

\* upload_ts_first_ and upload_ts_last_ have no initialiser: any value.
Uninitialised == {0, BASELINE + MaxTs}

NoFailure == [first |-> 0, attempts |-> 0]

NoCycle ==
    [active |-> FALSE, snapshot |-> <<>>, adds |-> 0, posts |-> 0,
     response |-> 0, body |-> ""]

\* The settings the configuration file holds: the first are the ones at
\* start, the second take every value function to a bound of its range and
\* switch the measurements off.
Settings ==
    <<[sensor_automatic_calibration |-> FALSE,
       sensor_temperature_offset |-> 0,
       sensor_altitude_compensation |-> 0,
       sensor_measurement_interval |-> 2,
       sensor_ambient_pressure |-> 950,
       take_measurement_interval |-> 2],
      [sensor_automatic_calibration |-> TRUE,
       sensor_temperature_offset |-> 70000,
       sensor_altitude_compensation |-> 100,
       sensor_measurement_interval |-> 1,
       sensor_ambient_pressure |-> 650,
       take_measurement_interval |-> 0]>>

\* The Sensor object after construction.  reset_start_ms_, reset_wait_ms_,
\* reset_complete_ and measurement_start_ms_ have no initialiser: garbage
\* says which of two values each of them holds.
SensorObject(garbage) ==
    [interval_ |-> 0,
     pending_operations_ |-> {},
     current_operation_ |-> "NONE",
     response_ |-> NoResponse,
     reset_start_ms_ |-> IF garbage THEN RESET_PRE_DELAY_MS ELSE 0,
     reset_wait_ms_ |-> IF garbage THEN RESET_PRE_DELAY_MS ELSE 0,
     reset_complete_ |-> garbage,
     last_reading_s_ |-> 0,
     measurement_start_ms_ |-> IF garbage THEN RESET_PRE_DELAY_MS ELSE 0,
     measurement_status_ |-> "IDLE",
     firmware_major_ |-> 0,
     firmware_minor_ |-> 0,
     temperature_c_ |-> FloatNaN,
     relative_humidity_pc_ |-> FloatNaN,
     co2_ppm_ |-> FloatNaN,
     calibration_ppm_ |-> 0,
     obs |-> <<>>]

\* The Report object after construction.
ReportObject(first, lst) ==
    [readings_ |-> <<>>,
     enabled_ |-> FALSE,
     overflow_ |-> FALSE,
     threshold_ |-> 0,
     url_ |-> <<>>,
     username_ |-> 0,
     password_ |-> 0,
     sensor_name_ |-> 0,
     http_client_ |-> [connected |-> FALSE],
     state_ |-> "IDLE",
     upload_ts_first_ |-> first,
     upload_ts_last_ |-> lst,
     obs |-> <<>>]

\* The state after construction, with either value of the members of Report
\* that have no initialiser.
Init ==
    /\ \E first \in Uninitialised : \E lst \in {first} :
         report = ReportObject(first, lst)
    /\ sensor = SensorObject(FALSE)
    /\ last = [call |-> "Report", state |-> "IDLE", obs |-> <<>>]
    /\ cycle = NoCycle
    /\ added = <<>>
    /\ failed = NoFailure
    /\ clock = 0
    /\ settings = Settings[1]
    /\ slast = [started |-> FALSE, obs |-> <<>>]

(***************************************************************************)
(* Inputs.                                                                 *)
(***************************************************************************)
\* Sensor::current_time(): a time before the baseline while the clock is
\* not set, then times from the baseline on (in any order: the clock may be
\* stepped back).
Timestamps == (BASELINE - 1) .. (BASELINE + MaxTs)

\* What Sensor::loop() passes to add() with the time: a measurement, or
\* not-a-number and zero values (a shorter text in the payload).  Which of
\* the two a call passes is fixed by its time, so that the buffer holds
\* both kinds without the model trying every mix of them.
Measurements ==
    <<[temperature_c |-> Float(21500), relative_humidity_pc |-> Float(45000),
       co2_ppm |-> Float(800000)],
      [temperature_c |-> FloatNaN, relative_humidity_pc |-> FloatZero,
       co2_ppm |-> FloatNaN]>>
MeasurementAt(timestamp) == Measurements[(timestamp % 2) + 1]
AddInputs ==
    {[timestamp |-> t,
      temperature_c |-> MeasurementAt(t).temperature_c,
      relative_humidity_pc |-> MeasurementAt(t).relative_humidity_pc,
      co2_ppm |-> MeasurementAt(t).co2_ppm] : t \in Timestamps}

\* What the HTTP exchange answers: POST() returns 200, another status or a
\* negative transport error; getString() returns the acknowledgement or not.
PostResponses == {HTTP_CODE_OK, 404, -1}
Bodies == {ACK, "OK"}
\* One step of upload() reads at most one of the two (SEND the response,
\* RECEIVE the body), so these pairs give every step every answer.
HttpInputs ==
    {[response |-> HTTP_CODE_OK, body |-> ACK],
     [response |-> 404, body |-> "OK"],
     [response |-> -1, body |-> "OK"]}

UrlHttp == HTTP_PREFIX \o <<"h">>
UrlHttps == HTTPS_PREFIX \o <<"h">>
UrlFtp == <<"f", "t", "p", ":", "/", "/", "h">>
UrlCut == <<"h", "t", "t", "p", ":", "/">>
Urls == {<<>>, UrlFtp, UrlCut, UrlHttp, UrlHttps}

\* Every configuration of the report settings over the modelled values.
AllConfigs ==
    [report_enabled : BOOLEAN,
     report_threshold : 0 .. MaxThreshold,
     report_url : Urls,
     report_username : {0, 1, LongName},
     report_password : {0, 1},
     report_sensor_name : {0, 1}]

\* The configurations Config is called with: three complete ones (a batch is
\* started at the first reading and every reading fits; a batch is started
\* at MaxThreshold readings and the byte cap cuts it; the first reading
\* alone is above the byte cap), and the first of them with one setting
\* spoilt (the flag, the URL's scheme, an empty string).
BaseConfig ==
    [report_enabled |-> TRUE, report_threshold |-> 1, report_url |-> UrlHttp,
     report_username |-> 1, report_password |-> 1, report_sensor_name |-> 1]
Configs ==
    {BaseConfig,
     [BaseConfig EXCEPT !.report_threshold = MaxThreshold,
                        !.report_url = UrlHttps,
                        !.report_username = LongName]}
    \cup {[BaseConfig EXCEPT !.report_username = HugeName]}
    \cup {[BaseConfig EXCEPT !.report_enabled = FALSE],
          [BaseConfig EXCEPT !.report_url = UrlFtp],
          [BaseConfig EXCEPT !.report_password = 0]}

(***************************************************************************)
(* History.                                                                *)
(***************************************************************************)
Ops(obs) == {obs[i].op : i \in DOMAIN obs}
Count(obs, name) == Cardinality({i \in DOMAIN obs : obs[i].op = name})
EventsOf(obs, name) == SelectSeq(obs, LAMBDA e : e.op = name)

NextCycle(r) ==
    IF report.state_ = "IDLE"
    THEN IF r.state_ = "CONNECT"
         THEN [NoCycle EXCEPT !.active = TRUE, !.snapshot = r.readings_]
         ELSE NoCycle
    ELSE [cycle EXCEPT
            !.adds = Min(1, @ + Count(r.obs, "emplace")),
            !.posts = @ + Count(r.obs, "POST"),
            !.response = IF "POST" \in Ops(r.obs)
                         THEN EventsOf(r.obs, "POST")[1].code ELSE @,
            !.body = IF "getString" \in Ops(r.obs)
                     THEN EventsOf(r.obs, "getString")[1].body ELSE @]

NextAdded(r) ==
    IF "remove" \in Ops(r.obs) THEN r.readings_
    ELSE IF "emplace" \in Ops(r.obs) /\ r.readings_ # <<>>
    THEN Append(added, r.readings_[Len(r.readings_)])
    ELSE added

NextFailed(r) ==
    IF \E i \in DOMAIN r.obs :
          \/ r.obs[i].op = "POST" /\ r.obs[i].code # HTTP_CODE_OK
          \/ r.obs[i].op = "getString" /\ r.obs[i].body # ACK
    THEN IF failed.first = r.upload_ts_first_
         THEN [failed EXCEPT !.attempts = Min(2, @ + 1)]
         ELSE [first |-> r.upload_ts_first_, attempts |-> 1]
    ELSE IF \E i \in DOMAIN r.obs : r.obs[i].op = "getString"
    THEN NoFailure
    ELSE failed

\* The handler `call` ran and took the Report object to r.
Step(call, r) ==
    /\ report' = [r EXCEPT !.obs = <<>>]
    /\ last' = [call |-> call, state |-> report.state_, obs |-> r.obs]
    /\ cycle' = NextCycle(r)
    /\ added' = NextAdded(r)
    /\ failed' = NextFailed(r)

(***************************************************************************)
(* Actions: one per handler of Report.                                     *)
(***************************************************************************)
Config ==
    /\ \E c \in Configs : Step("config", config(report, c))
    /\ UNCHANGED svars

Add ==
    /\ \E a \in AddInputs, in \in HttpInputs :
           Step("add", add(report, a.timestamp, a.temperature_c,
                           a.relative_humidity_pc, a.co2_ppm, in))
    /\ UNCHANGED svars

Loop ==
    /\ \E in \in HttpInputs : Step("loop", loop(report, in))
    /\ UNCHANGED svars

Next == Config \/ Add \/ Loop

Spec == Init /\ [][Next]_vars

(***************************************************************************)
(* The sensor controller's specification: the handlers of Sensor, called   *)
(* in any order after start(), with the Report object behind them.         *)
(***************************************************************************)
\* The state after construction, with either value of the members of Sensor
\* that have no initialiser.
SensorInit ==
    /\ \E garbage \in BOOLEAN : sensor = SensorObject(garbage)
    /\ report = ReportObject(0, 0)
    /\ last = [call |-> "Report", state |-> "IDLE", obs |-> <<>>]
    /\ cycle = NoCycle
    /\ added = <<>>
    /\ failed = NoFailure
    /\ clock = 0
    /\ settings = Settings[1]
    /\ slast = [started |-> FALSE, obs |-> <<>>]

\* The registers of the device: in the first every configuration register
\* holds the value the first settings ask for, in the second the value the
\* second settings ask for, but for the measurement interval.  The firmware
\* version is 1.2.
DeviceRegisters ==
    <<(FIRMWARE_VERSION_ADDRESS :> 258 @@ ASC_CONFIG_ADDRESS :> 0
         @@ TEMPERATURE_OFFSET_ADDRESS :> 0 @@ ALTITUDE_COMPENSATION_ADDRESS :> 0
         @@ MEASUREMENT_INTERVAL_ADDRESS :> 2 @@ AMBIENT_PRESSURE_ADDRESS :> 950),
      (FIRMWARE_VERSION_ADDRESS :> 258 @@ ASC_CONFIG_ADDRESS :> 1
         @@ TEMPERATURE_OFFSET_ADDRESS :> 65535 @@ ALTITUDE_COMPENSATION_ADDRESS :> 100
         @@ MEASUREMENT_INTERVAL_ADDRESS :> 5 @@ AMBIENT_PRESSURE_ADDRESS :> 700)>>

\* The measurement data of the device, six registers: CO2, temperature and
\* relative humidity as two registers each.
\*   412.5 ppm, 21.5 C, 45 %;  150 ppm (below MINIMUM_CO2_PPM), 21.5 C, 45 %;
\*   not a number, -5.25 C, 0 %.
MeasurementData ==
    <<<<17358, 16384, 16812, 0, 16948, 0>>,
      <<17174, 0, 16812, 0, 16948, 0>>,
      <<32704, 0, 49320, 0, 0, 0>>>>

\* What current_time() returns: the seconds of the wall clock, in any order
\* (the clock may be stepped back).
SensorTimes == BASELINE .. (BASELINE + MaxNow)

\* ::millis() advances by one of these between two calls of loop(): no
\* delay has elapsed after the first, every delay after the second.
MsSteps == {0, RESET_PRE_DELAY_MS}

\* What the outside answers during one call of loop().  The device's
\* registers go with the outcome of the request and its measurement data
\* with the time, so that every state meets every answer it reads without
\* the model trying every mix of them; and an answer the call does not read
\* is given one value: client_.loop() completes a request only if one is
\* outstanding, the ready pin is read only if there is no response, and
\* current_time() only if the measurement status is IDLE with an interval,
\* or if the response to TAKE_MEASUREMENT is there.
SensorInputs ==
    {[ms |-> (clock + d) % MillisModulus,
      now |-> t,
      ready |-> b,
      outcome |-> o,
      device |-> [registers |-> DeviceRegisters[IF o = "wrong" THEN 2 ELSE 1],
                  measurement |-> MeasurementData[(t % 3) + 1]]] :
        d \in MsSteps,
        t \in IF \/ sensor.measurement_status_ = "IDLE" /\ sensor.interval_ > 0
                 \/ /\ sensor.current_operation_ = "TAKE_MEASUREMENT"
                    /\ sensor.response_.kind # "none"
              THEN SensorTimes ELSE {BASELINE},
        b \in IF sensor.response_.kind = "none" THEN BOOLEAN ELSE {FALSE},
        o \in IF sensor.response_.kind # "none" /\ ~sensor.response_.done
              THEN {"none", "short", "full", "wrong"} ELSE {"none"}}

\* Sensor::config(operations) as the console calls it: with the operation
\* of the setting that was changed, which for the reading interval is no
\* configuration operation.
ConfigOperations == {<<"CONFIG_AMBIENT_PRESSURE">>, <<"TAKE_MEASUREMENT">>}

\* Sensor::calibrate(ppm): the lowest value the console lets through, and
\* the one below it, which calibrate() itself refuses.
CalibrationValues == {MINIMUM_CALIBRATION_PPM - 1, MINIMUM_CALIBRATION_PPM}

\* A handler of Sensor ran and took the Sensor object to s.
SensorStep(s) ==
    /\ sensor' = [s EXCEPT !.obs = <<>>]
    /\ slast' = [started |-> TRUE, obs |-> s.obs]

SensorStart ==
    /\ ~slast.started
    /\ SensorStep(Sensor_start(sensor, settings))
    /\ UNCHANGED <<clock, settings>>
    /\ UNCHANGED rvars

SensorConfig ==
    /\ slast.started
    /\ \E i \in DOMAIN Settings, operations \in ConfigOperations :
          /\ settings' = Settings[i]
          /\ SensorStep(Sensor_config(sensor, operations, Settings[i]))
    /\ UNCHANGED clock
    /\ UNCHANGED rvars

SensorCalibrate ==
    /\ slast.started
    /\ \E ppm \in CalibrationValues : SensorStep(calibrate(sensor, ppm))
    /\ UNCHANGED <<clock, settings>>
    /\ UNCHANGED rvars

SensorLoop ==
    /\ slast.started
    /\ \E in \in SensorInputs :
          LET s == Sensor_loop(sensor, settings, in)
              adds == EventsOf(s.obs, "add")
          IN  /\ SensorStep(s)
              /\ clock' = in.ms
              /\ IF adds = <<>>
                 THEN UNCHANGED rvars
                 ELSE \E http \in HttpInputs :
                         Step("add", add(report, adds[1].value, adds[1].args[1],
                                         adds[1].args[2], adds[1].args[3], http))
    /\ UNCHANGED settings

SensorNext == SensorStart \/ SensorConfig \/ SensorCalibrate \/ SensorLoop

SensorSpec == SensorInit /\ [][SensorNext]_vars

(***************************************************************************)
(* The specification of the sensor controller left to itself: it starts in *)
(* the state a call of reset() leaves, with either settings; nothing is    *)
(* asked of it from outside, and every request completes in full.          *)
(***************************************************************************)
OrderInit ==
    /\ \E i \in DOMAIN Settings :
          /\ settings = Settings[i]
          /\ sensor = [Sensor_reset(Sensor_start(SensorObject(FALSE), Settings[i]),
                                    RESET_PRE_DELAY_MS, Settings[i], 0)
                         EXCEPT !.obs = <<>>]
    /\ report = ReportObject(0, 0)
    /\ last = [call |-> "Report", state |-> "IDLE", obs |-> <<>>]
    /\ cycle = NoCycle
    /\ added = <<>>
    /\ failed = NoFailure
    /\ clock = 0
    /\ slast = [started |-> TRUE, obs |-> <<>>]

OrderLoop ==
    /\ \E in \in {i \in SensorInputs : i.outcome \in {"none", "full"}} :
          LET s == Sensor_loop(sensor, settings, in)
              adds == EventsOf(s.obs, "add")
          IN  /\ SensorStep(s)
              /\ clock' = in.ms
              /\ IF adds = <<>>
                 THEN UNCHANGED rvars
                 ELSE \E http \in HttpInputs :
                         Step("add", add(report, adds[1].value, adds[1].args[1],
                                         adds[1].args[2], adds[1].args[3], http))
    /\ UNCHANGED settings

OrderSpec == OrderInit /\ [][OrderLoop]_vars

(***************************************************************************)
(* The calibration's specification: Sensor with the measurements switched  *)
(* off in the settings, and calibrate() called with values in and around   *)
(* its range.                                                              *)
(***************************************************************************)
CalibrateInit ==
    /\ \E garbage \in BOOLEAN : sensor = SensorObject(garbage)
    /\ report = ReportObject(0, 0)
    /\ last = [call |-> "Report", state |-> "IDLE", obs |-> <<>>]
    /\ cycle = NoCycle
    /\ added = <<>>
    /\ failed = NoFailure
    /\ clock = 0
    /\ settings = Settings[2]
    /\ slast = [started |-> FALSE, obs |-> <<>>]

\* The arguments of Sensor::calibrate(ppm): the bounds of the range and
\* the values next to them.
CalibrationRange ==
    {MINIMUM_CALIBRATION_PPM - 1, MINIMUM_CALIBRATION_PPM,
     MAXIMUM_CALIBRATION_PPM, MAXIMUM_CALIBRATION_PPM + 1}

\* Sensor::calibrate(ppm) ran; the call and its argument are recorded in
\* slast.obs.
CalibrateCall ==
    /\ slast.started
    /\ \E ppm \in CalibrationRange :
          LET s == calibrate(sensor, ppm)
          IN  /\ sensor' = [s EXCEPT !.obs = <<>>]
              /\ slast' = [started |-> TRUE,
                           obs |-> <<SEv("calibrate", 0, ppm)>> \o s.obs]
    /\ UNCHANGED <<clock, settings>>
    /\ UNCHANGED rvars

CalibrateSpec ==
    CalibrateInit /\ [][SensorStart \/ CalibrateCall \/ SensorLoop]_vars

(***************************************************************************)
(* The sensor controller's specification for liveness: the requests from   *)
(* outside are finitely many (the settings change once, with the operation *)
(* of the ambient pressure, and calibrate() is called once), and the       *)
(* calls of loop(), the time and the register client are fair.  A request  *)
(* may complete with a full, a short or a wrong response.                  *)
(***************************************************************************)
ConfigOnce ==
    /\ slast.started
    /\ settings = Settings[1]
    /\ settings' = Settings[2]
    /\ SensorStep(Sensor_config(sensor, <<"CONFIG_AMBIENT_PRESSURE">>, Settings[2]))
    /\ UNCHANGED clock
    /\ UNCHANGED rvars

CalibrateOnce ==
    /\ slast.started
    /\ sensor.calibration_ppm_ = 0
    /\ SensorStep(calibrate(sensor, MINIMUM_CALIBRATION_PPM))
    /\ UNCHANGED <<clock, settings>>
    /\ UNCHANGED rvars

\* A request is outstanding: sent, and its response not complete.
Outstanding ==
    sensor.response_.kind # "none" /\ ~sensor.response_.done

\* ::millis() has advanced by the time of a call of loop().
TimePasses == clock' = (clock + RESET_PRE_DELAY_MS) % MillisModulus

\* start() is called; loop() is called again and again with the millisecond
\* counter advancing; and the register client completes every request,
\* within its timeout, so that time and again none is outstanding.
FairSpec ==
    /\ SensorInit
    /\ [][SensorStart \/ ConfigOnce \/ CalibrateOnce \/ SensorLoop]_vars
    /\ WF_vars(SensorStart)
    /\ WF_clock(TimePasses)
    /\ []<>(~Outstanding)

\* The same with a device that answers every request in full: loop() is
\* called after start() with the answers of OrderLoop.
FaultFreeSpec ==
    /\ SensorInit
    /\ [][SensorStart \/ ConfigOnce \/ (slast.started /\ OrderLoop)]_vars
    /\ WF_vars(SensorStart)
    /\ WF_clock(TimePasses)
    /\ []<>(~Outstanding)

(***************************************************************************)
(* The specification of Sensor::config(operations): the sensor controller  *)
(* with the measurements switched off and a device that answers in full,   *)
(* and config() called with no operation, with each operation of the enum, *)
(* with two of them, and with the reading interval at and next to the      *)
(* limits of interval_ (no time of the model is a multiple of 255, so no   *)
(* measurement is taken).                                                  *)
(***************************************************************************)
\* Sensor::config(operations) ran; the call, the interval of the settings
\* and the operations are recorded in slast.obs.
ConfigCall ==
    /\ slast.started
    /\ \E operations \in {<<>>, <<"CALIBRATE", "CONFIG_TEMPERATURE_OFFSET">>,
                          <<"CONFIG_AMBIENT_PRESSURE", "CONFIG_AUTOMATIC_CALIBRATION">>}
                         \cup {<<Operations[i]>> : i \in DOMAIN Operations},
          value \in {0, UINT8_MAX, UINT8_MAX + 1} :
          LET c == [settings EXCEPT !.take_measurement_interval = value]
              s == Sensor_config(sensor, operations, c)
          IN  /\ settings' = c
              /\ sensor' = [s EXCEPT !.obs = <<>>]
              /\ slast' = [started |-> TRUE,
                           obs |-> <<[op |-> "config", address |-> 0,
                                      value |-> value, args |-> operations]>>
                                   \o s.obs]
    /\ UNCHANGED clock
    /\ UNCHANGED rvars

ConfigSpec ==
    CalibrateInit /\ [][SensorStart \/ ConfigCall \/ (slast.started /\ OrderLoop)]_vars

(***************************************************************************)
(* The specification of the configuration values: Sensor with no           *)
(* measurements, and settings whose values lie on, next to and beyond the  *)
(* limits of the value functions (the getters return unsigned long; the   *)
(* highest value here is 2^31 - 1); config() is called when a setting has  *)
(* changed.                                                                *)
(***************************************************************************)
ValueSettings ==
    {[sensor_automatic_calibration |-> b,
      sensor_temperature_offset |-> v[1],
      sensor_altitude_compensation |-> v[2],
      sensor_measurement_interval |-> v[3],
      sensor_ambient_pressure |-> v[4],
      take_measurement_interval |-> 0] :
        b \in BOOLEAN,
        v \in {<<0, 0, 0, 0>>,
               <<1, 65535, 1, 1>>,
               <<65535, 1, 2, 699>>,
               <<65536, 65536, 1800, 700>>,
               <<2147483647, 70000, 1801, 1200>>,
               <<300, 2147483647, 2147483647, 1201>>}}

ValueInit ==
    /\ \E garbage \in BOOLEAN : sensor = SensorObject(garbage)
    /\ report = ReportObject(0, 0)
    /\ last = [call |-> "Report", state |-> "IDLE", obs |-> <<>>]
    /\ cycle = NoCycle
    /\ added = <<>>
    /\ failed = NoFailure
    /\ clock = 0
    /\ settings \in ValueSettings
    /\ slast = [started |-> FALSE, obs |-> <<>>]

ValueConfig ==
    /\ slast.started
    /\ \E c \in ValueSettings, operations \in ConfigOperations :
          /\ c # settings
          /\ settings' = c
          /\ SensorStep(Sensor_config(sensor, operations, c))
    /\ UNCHANGED clock
    /\ UNCHANGED rvars

ValueSpec == ValueInit /\ [][SensorStart \/ ValueConfig \/ SensorLoop]_vars

(***************************************************************************)
(* The specification of struct Reading's constructor: the three floats are *)
(* drawn from values on, next to and beyond the limits of each field, the  *)
(* action constructs the Reading from them.                                *)
(***************************************************************************)
TemperatureFloats ==
    {FloatNaN, FloatInf, FloatNegInf, FloatZero,
     Float(-100000), Float(-81915), Float(-81910), Float(-4), Float(21505),
     Float(81910), Float(81920), Float(100000)}
HumidityFloats ==
    {FloatNaN, FloatInf, FloatZero,
     Float(-1000), Float(4), Float(45678), Float(163820), Float(163830),
     Float(200000)}
CO2Floats ==
    {FloatNaN, FloatNegInf, FloatZero,
     Float(-1), Float(24), Float(415270), Float(52428700), Float(52428750),
     Float(60000000)}

ReadingInit ==
    /\ report = ReportObject(0, 0)
    /\ sensor = SensorObject(FALSE)
    /\ \E t \in TemperatureFloats, h \in HumidityFloats, c \in CO2Floats :
          last = [call |-> "Reading", state |-> "IDLE",
                  obs |-> <<[op |-> "Reading", temperature_c_ |-> t,
                             relative_humidity_pc_ |-> h, co2_ppm_ |-> c]>>]
    /\ cycle = NoCycle
    /\ added = <<>>
    /\ failed = NoFailure
    /\ clock = 0
    /\ settings = Settings[1]
    /\ slast = [started |-> FALSE, obs |-> <<>>]

\* Reading(timestamp_, temperature_c_, relative_humidity_pc_, co2_ppm_)
ReadingConstruct ==
    /\ report.readings_ = <<>>
    /\ LET a == last.obs[1]
       IN  report' = [report EXCEPT
                        !.readings_ = <<Reading(0, a.temperature_c_,
                                                a.relative_humidity_pc_,
                                                a.co2_ppm_)>>]
    /\ UNCHANGED <<last, cycle, added, failed>>
    /\ UNCHANGED svars

ReadingSpec == ReadingInit /\ [][ReadingConstruct]_vars

(***************************************************************************)
(* The specification of the upload's progress: config() has enabled the    *)
(* uploading, the server answers every POST with 200 and every body with   *)
(* the acknowledgement, and add() and loop() are called again and again:   *)
(* loop() whenever it has something to do, add() with a reading it stores  *)
(* as long as the model has a later time to give it.                       *)
(***************************************************************************)
UploadInit ==
    /\ \E first \in Uninitialised, c \in {x \in Configs : config_enabled(x)} :
          report = [config(ReportObject(first, first), c) EXCEPT !.obs = <<>>]
    /\ sensor = SensorObject(FALSE)
    /\ last = [call |-> "config", state |-> "IDLE", obs |-> <<>>]
    /\ cycle = NoCycle
    /\ added = <<>>
    /\ failed = NoFailure
    /\ clock = 0
    /\ settings = Settings[1]
    /\ slast = [started |-> FALSE, obs |-> <<>>]

\* The server's answers: 200 to the POST and the acknowledgement as body.
AddOk ==
    /\ \E a \in AddInputs :
           Step("add", add(report, a.timestamp, a.temperature_c,
                           a.relative_humidity_pc, a.co2_ppm,
                           [response |-> HTTP_CODE_OK, body |-> ACK]))
    /\ UNCHANGED svars

LoopOk ==
    /\ Step("loop", loop(report, [response |-> HTTP_CODE_OK, body |-> ACK]))
    /\ UNCHANGED svars

\* An upload is under way: a call of loop() takes it one step on.
LoopCanAct == report.state_ # "IDLE"
\* add() has a reading it stores: the buffer is empty, or the model has a
\* time after the newest reading's.
AddCanStore == \E a \in AddInputs : ~add_rejects(report, a.timestamp)

\* Weak fairness of the calls of loop() during an upload and of the calls
\* of add() that store a reading, written out: the call is not possible
\* time and again, or it is made time and again.
UploadSpec ==
    /\ UploadInit
    /\ [][AddOk \/ LoopOk]_vars
    /\ ([]<>(~LoopCanAct) \/ []<><<last'.call = "loop">>_vars)
    /\ ([]<>(~AddCanStore) \/ []<><<"emplace" \in Ops(last'.obs)>>_vars)

(***************************************************************************)
(* The specification of the encoding of one reading in Report::upload(),   *)
(* case SEND: the buffer holds one reading whose fields are drawn from the *)
(* values a field can hold (every temperature within 1.01 degC of zero,    *)
(* the limits, the sentinels and values in between), the action formats    *)
(* its fields as the loop body does.                                       *)
(***************************************************************************)
EncodeInit ==
    /\ \E t \in (-101..101) \cup {TEMP_NAN, TEMP_MIN, -2150, 2150, TEMP_MAX},
          h \in {RHUM_MIN, 5, 99, 100, 4567, RHUM_MAX, RHUM_NAN},
          c \in {CO2_MIN, 1, 19, 20, 8305, CO2_MAX, CO2_NAN} :
          report = [ReportObject(0, 0) EXCEPT
                      !.readings_ = <<[timestamp |-> 1, temperature_c |-> t,
                                       relative_humidity_pc |-> h, co2_ppm |-> c]>>]
    /\ sensor = SensorObject(FALSE)
    /\ last = [call |-> "Report", state |-> "IDLE", obs |-> <<>>]
    /\ cycle = NoCycle
    /\ added = <<>>
    /\ failed = NoFailure
    /\ clock = 0
    /\ settings = Settings[1]
    /\ slast = [started |-> FALSE, obs |-> <<>>]

\* The body of the loop over readings_, up to the size check.
EncodeStep ==
    /\ last.obs = <<>>
    /\ LET reading == report.readings_[1]
       IN  last' = [call |-> "encode", state |-> report.state_,
                    obs |-> <<[op |-> "text",
                               ok |-> EncodeReading(reading).ok,
                               text |-> EncodeReading(reading).text,
                               t |-> FieldTemperature(reading).text,
                               h |-> FieldHumidity(reading).text,
                               c |-> FieldCO2(reading).text]>>]
    /\ UNCHANGED <<report, cycle, added, failed>>
    /\ UNCHANGED svars

EncodeSpec == EncodeInit /\ [][EncodeStep]_vars

(***************************************************************************)
(* Properties.                                                             *)
(***************************************************************************)
Timestamp(reading) == reading.timestamp
Readings(q) == {q[i] : i \in DOMAIN q}
LastN(q, n) == SubSeq(q, Len(q) - n + 1, Len(q))
StrictlyIncreasing(q) ==
    \A i \in DOMAIN q : \A j \in DOMAIN q : i < j => q[i].timestamp < q[j].timestamp

\* What the last handler did, read from its log.
Discarded == Count(last.obs, "discard")
Removed == Count(last.obs, "remove")
Stored == "emplace" \in Ops(last.obs)
PostFailed == \E i \in DOMAIN last.obs :
    last.obs[i].op = "POST" /\ last.obs[i].code # 200
BodyRefused == \E i \in DOMAIN last.obs :
    last.obs[i].op = "getString" /\ last.obs[i].body # "OK\n"
HttpRequests == {"begin", "addHeader", "POST", "getString"}

\* The upload cycle ended in the last handler because SEND or RECEIVE failed.
CycleFailed ==
    /\ cycle.active
    /\ last.state \in {"SEND", "RECEIVE"}
    /\ report.state_ = "IDLE"
    /\ PostFailed \/ BodyRefused

\* The step's upload() call ran the CLEANUP case.
CleanupStep ==
    /\ report.state_ = "CLEANUP"
    /\ \/ last'.call = "loop" /\ report.readings_ # <<>>
       \/ last'.call = "add" /\ "emplace" \in Ops(last'.obs)

\* C1: the pipeline removes readings only in its CLEANUP step (a handler
\* entered in any other state loses no reading but those add() discards for
\* room), and the state is CLEANUP, and a reading is removed, only in a
\* cycle whose one POST returned 200 and whose response body was exactly
\* "OK\n".
C1_PruneOnlyAfterAck ==
    /\ Removed > 0 => last.state = "CLEANUP"
    /\ (report.state_ = "CLEANUP" \/ Removed > 0) =>
          /\ cycle.active
          /\ cycle.posts = 1
          /\ cycle.response = 200
          /\ cycle.body = "OK\n"
    /\ (PostFailed \/ BodyRefused) => report.state_ = "IDLE" /\ Removed = 0

C1_Witness ==
    /\ last.state = "CLEANUP"
    /\ Removed > 0
    /\ cycle.response = 200
    /\ cycle.body = "OK\n"

\* C2 as stated: when SEND or RECEIVE fails, the buffer after the cycle is
\* the buffer CONNECT was entered with.
C2_Original == CycleFailed => report.readings_ = cycle.snapshot

\* C2 amended: the failing step removes nothing, and when add() stored no
\* reading during the cycle the buffer after it is the buffer CONNECT was
\* entered with; when add() did, the buffer differs by add()'s work alone:
\* what is left of the earlier readings is the newest of them, and some are
\* gone only from a full buffer.
C2_FailedCycleKeepsBuffer ==
    CycleFailed =>
        LET before == cycle.snapshot
            left == SelectSeq(report.readings_,
                        LAMBDA x : x.timestamp <= before[Len(before)].timestamp)
        IN  /\ Removed = 0
            /\ before # <<>>
            /\ cycle.adds = 0 => report.readings_ = before
            /\ Len(left) <= Len(before)
            /\ left = LastN(before, Len(left))
            /\ left # before => Len(report.readings_) = MAXIMUM_STORE_READINGS

C2_Witness ==
    /\ CycleFailed
    /\ BodyRefused
    /\ cycle.adds = 0
    /\ Len(report.readings_) = MAXIMUM_STORE_READINGS

\* C3: a batch is started only from IDLE, and from CONNECT until the return
\* to IDLE at most one POST is made: none before RECEIVE, one from then on.
C3_OneUploadInFlight ==
    /\ report.state_ # "IDLE" => cycle.active
    /\ cycle.posts <= 1
    /\ Count(last.obs, "POST") <= 1
    /\ Count(last.obs, "begin") <= 1
    /\ report.state_ \in {"CONNECT", "SEND"} => cycle.posts = 0
    /\ report.state_ \in {"RECEIVE", "CLEANUP"} => cycle.posts = 1
    /\ (report.state_ = "CONNECT" /\ last.state # "CONNECT") =>
          last.state = "IDLE" /\ last.call = "add"

C3_Witness ==
    /\ report.state_ = "IDLE"
    /\ cycle.active
    /\ cycle.posts = 1
    /\ cycle.adds = 1
    /\ PostFailed

\* C4 as stated: while an upload is in flight add() removes no reading.
C4_Original == Discarded > 0 => last.state = "IDLE"

\* C4 amended: while an upload is in flight readings leave the buffer only
\* through the pipeline's CLEANUP step and through add()'s eviction of the
\* oldest readings of a full buffer; loop() and config() remove none.
C4_RemovalsInFlight ==
    [][report.state_ # "IDLE" =>
          LET discarded == Count(last'.obs, "discard")
              removed == Count(last'.obs, "remove")
              kept == SubSeq(report.readings_, discarded + removed + 1,
                             Len(report.readings_))
          IN  /\ discarded + removed <= Len(report.readings_) + 1
              /\ \/ report'.readings_ = kept
                 \/ /\ last'.call = "add"
                    /\ report'.readings_ # <<>>
                    /\ report'.readings_ =
                          Append(kept, report'.readings_[Len(report'.readings_)])
                 \/ /\ last'.call = "add"
                    /\ removed = Len(report.readings_) - discarded + 1
                    /\ report'.readings_ = <<>>
              /\ discarded > 0 =>
                    /\ last'.call = "add"
                    /\ Len(report.readings_) >= MAXIMUM_STORE_READINGS
                    /\ discarded = Len(report.readings_) - MAXIMUM_STORE_READINGS + 1
              /\ removed > 0 => report.state_ = "CLEANUP"
              /\ last'.call = "config" => report'.readings_ = report.readings_]_vars

C4_Witness ==
    /\ last.call = "add"
    /\ last.state = "RECEIVE"
    /\ Discarded > 0

\* C5: the CLEANUP step removes exactly the readings whose timestamp is <=
\* upload_ts_last_: what it leaves is the buffer it found (after add() made
\* room and stored its reading, when add() ran it) without them.
C5_CleanupRemovesBatch ==
    [][CleanupStep =>
          LET discarded == Count(last'.obs, "discard")
              found == SubSeq(report.readings_, discarded + 1, Len(report.readings_))
              old == SelectSeq(found, LAMBDA x : x.timestamp <= report.upload_ts_last_)
              new == SelectSeq(found, LAMBDA x : x.timestamp > report.upload_ts_last_)
          IN  /\ Count(last'.obs, "remove") = Len(old)
              /\ \A x \in Readings(report'.readings_) :
                    x.timestamp > report.upload_ts_last_
              /\ IF last'.call = "loop"
                 THEN report'.readings_ = new
                 ELSE /\ Len(report'.readings_) = Len(new) + 1
                      /\ SubSeq(report'.readings_, 1, Len(new)) = new
              /\ report'.state_ = "IDLE"]_vars

C5_Witness ==
    /\ last.state = "CLEANUP"
    /\ last.call = "loop"
    /\ Removed > 0
    /\ cycle.adds = 1
    /\ report.readings_ # <<>>

\* C6: after add() calls with strictly increasing timestamps from the
\* baseline on, and no CLEANUP removal among them, the buffer holds at most
\* MAXIMUM_STORE_READINGS readings and they are the most recent
\* min(N, MAXIMUM_STORE_READINGS) readings stored, in the order stored.
C6_MostRecentReadings ==
    /\ Len(report.readings_) <= MAXIMUM_STORE_READINGS
    /\ Len(report.readings_) = Min(Len(added), MAXIMUM_STORE_READINGS)
    /\ report.readings_ = LastN(added, Len(report.readings_))
    /\ StrictlyIncreasing(added)

C6_Witness ==
    /\ Len(added) = MAXIMUM_STORE_READINGS + 2
    /\ Len(report.readings_) = MAXIMUM_STORE_READINGS

\* C7: add() with a timestamp below the baseline, or not above the last
\* stored reading's, changes nothing: not the buffer, not the overflow flag,
\* not the pipeline state, and it makes no call and logs nothing.
C7_RejectedAddIsNoOp ==
    \A a \in AddInputs, in \in HttpInputs :
        (\/ a.timestamp < 19035 * 86400
         \/ /\ report.readings_ # <<>>
            /\ a.timestamp <= report.readings_[Len(report.readings_)].timestamp)
        => add(report, a.timestamp, a.temperature_c, a.relative_humidity_pc,
               a.co2_ppm, in) = report

C7_Witness ==
    /\ last.call = "add"
    /\ last.obs = <<>>
    /\ report.state_ = "SEND"
    /\ report.overflow_

\* C8: in every reachable state the stored timestamps increase strictly
\* from front to back, none is below the baseline, and the buffer holds at
\* most MAXIMUM_STORE_READINGS readings.
C8_BufferInvariant ==
    /\ StrictlyIncreasing(report.readings_)
    /\ \A x \in Readings(report.readings_) : x.timestamp >= 19035 * 86400
    /\ Len(report.readings_) <= MAXIMUM_STORE_READINGS

C8_Witness ==
    /\ Len(report.readings_) = MAXIMUM_STORE_READINGS
    /\ report.readings_[1].timestamp = BASELINE + 1
    /\ last.call = "add"
    /\ last.state = "CLEANUP"
    /\ Discarded > 0

\* C9: the overflow flag rises exactly when add() discards a reading while
\* it is down, which logs the one alert of the episode; it stays up through
\* further discards, which log none; and it falls only in a loop() call
\* that finds the buffer empty.
C9_OverflowFlag ==
    [][LET discarded == Count(last'.obs, "discard")
           alerts == Count(last'.obs, "alert")
       IN  /\ discarded > 0 => report'.overflow_
           /\ (~report.overflow_ /\ report'.overflow_) =>
                 /\ last'.call = "add"
                 /\ discarded > 0
                 /\ Len(report.readings_) >= MAXIMUM_STORE_READINGS
           /\ alerts = IF ~report.overflow_ /\ report'.overflow_ THEN 1 ELSE 0
           /\ (report.overflow_ /\ ~report'.overflow_) =>
                 /\ last'.call = "loop"
                 /\ report.readings_ = <<>>
           /\ (last'.call = "loop" /\ report.readings_ = <<>>) =>
                 ~report'.overflow_]_vars

C9_Witness ==
    /\ report.overflow_
    /\ report.readings_ = <<>>
    /\ last.call = "loop"

\* The settings are complete: what C10 says enables uploading.
C10_Complete(c) ==
    /\ c.report_enabled
    /\ c.report_threshold # 0
    /\ c.report_url # <<>>
    /\ \/ StartsWith(c.report_url, <<"h", "t", "t", "p", ":", "/", "/">>)
       \/ StartsWith(c.report_url, <<"h", "t", "t", "p", "s", ":", "/", "/">>)
    /\ c.report_username # 0
    /\ c.report_password # 0
    /\ c.report_sensor_name # 0

\* config() computes enabled_ as C10 says, for every combination of the
\* modelled settings.
C10_EnabledForAll == \A c \in AllConfigs : config_enabled(c) = C10_Complete(c)

\* C10: config() enables uploading exactly when the flag is set, the
\* threshold is not zero, the URL starts with http:// or https://, and the
\* user name, the password and the sensor name are not empty (for every
\* combination of the modelled settings, and in every reachable state for
\* the ones Config is called with); and while uploading is disabled the
\* pipeline is IDLE and no handler makes an HTTP request.
C10_FailClosed ==
    /\ C10_EnabledForAll
    /\ \A c \in Configs :
          /\ config(report, c).enabled_ = C10_Complete(c)
          /\ config(report, c).state_ = "IDLE"
    /\ report.enabled_ =>
          /\ report.threshold_ # 0
          /\ \/ StartsWith(report.url_, <<"h", "t", "t", "p", ":", "/", "/">>)
             \/ StartsWith(report.url_, <<"h", "t", "t", "p", "s", ":", "/", "/">>)
          /\ report.username_ # 0
          /\ report.password_ # 0
          /\ report.sensor_name_ # 0
    /\ ~report.enabled_ =>
          /\ report.state_ = "IDLE"
          /\ Ops(last.obs) \cap HttpRequests = {}

C10_Witness ==
    /\ ~report.enabled_
    /\ report.threshold_ > 0
    /\ last.call = "add"
    /\ Stored
    /\ Len(report.readings_) >= report.threshold_

\* C11: the pipeline leaves IDLE only for CONNECT, and only in an add() call
\* that stored its reading, with uploading enabled and at least threshold_
\* readings buffered; a loop() call that finds the pipeline IDLE leaves it
\* IDLE and calls nothing.
C11_BatchStartsOnlyInAdd ==
    [][/\ (report.state_ = "IDLE" /\ report'.state_ # "IDLE") =>
             report'.state_ = "CONNECT"
       /\ (report'.state_ = "CONNECT" /\ report.state_ # "CONNECT") =>
             /\ report.state_ = "IDLE"
             /\ last'.call = "add"
             /\ "emplace" \in Ops(last'.obs)
             /\ report'.enabled_
             /\ Len(report'.readings_) >= report'.threshold_
       /\ (last'.call = "loop" /\ report.state_ = "IDLE") =>
             /\ report'.state_ = "IDLE"
             /\ last'.obs = <<>>]_vars

C11_Witness ==
    /\ last.call = "loop"
    /\ last.state = "IDLE"
    /\ report.state_ = "IDLE"
    /\ report.enabled_
    /\ report.readings_ # <<>>
    /\ Len(report.readings_) >= report.threshold_

RECURSIVE PrefixLength(_, _)
\* The length of the text of the first k readings of q.
PrefixLength(q, k) ==
    IF k = 0 THEN 0
    ELSE PrefixLength(q, k - 1) + Len(EncodeReading(q[k]).text)

\* The length of the payload that holds the first k readings of the buffer.
PayloadLength(k) ==
    (Len(<<"u", "=">>) + report.username_ + Len(<<"&", "p", "=">>)
       + report.password_ + Len(<<"&", "n", "=">>) + report.sensor_name_)
    + PrefixLength(report.readings_, k)

\* C12: the batch a SEND step posts is the first count readings of the
\* buffer, oldest first; every reading after the first is in it only if the
\* payload with it is at most MAXIMUM_UPLOAD_BYTES long, and the reading
\* after the batch would take the payload above that; the first reading is
\* in it in any case; upload_ts_first_ and upload_ts_last_ are the
\* timestamps of the first and the last reading of the batch.
C12_BatchIsOldestPrefix ==
    "POST" \in Ops(last.obs) =>
        LET q == report.readings_
            b == EncodePayload(report)
            k == b.count
        IN  /\ q # <<>>
            /\ k >= 1
            /\ k <= Len(q)
            /\ b.segments = [i \in 1 .. k |-> EncodeReading(q[i]).text]
            /\ b.length = PayloadLength(k)
            /\ \A i \in 2 .. k : PayloadLength(i) <= 640
            /\ k < Len(q) => PayloadLength(k + 1) > 640
            /\ report.upload_ts_first_ = q[1].timestamp
            /\ report.upload_ts_last_ = q[k].timestamp
            /\ StrictlyIncreasing(SubSeq(q, 1, k))

C12_Witness ==
    /\ "POST" \in Ops(last.obs)
    /\ Len(report.readings_) = 2
    /\ PayloadLength(1) > 640
    /\ report.upload_ts_first_ = report.readings_[1].timestamp
    /\ report.upload_ts_last_ = report.readings_[1].timestamp

\* The byte cap cuts a batch of more than one reading.
C12_WitnessCut ==
    /\ "POST" \in Ops(last.obs)
    /\ PayloadLength(1) <= 640
    /\ report.upload_ts_last_ < report.readings_[Len(report.readings_)].timestamp

ShortReads(obs) ==
    {i \in DOMAIN obs : obs[i].op = "read_done" /\ Len(obs[i].args) < obs[i].value}
ShortResponses(obs) ==
    {i \in DOMAIN obs : /\ obs[i].op \in {"read_done", "write_done"}
                        /\ Len(obs[i].args) < obs[i].value}

\* The state reset() leaves, but for the pending operations.
ResetState(s) ==
    /\ s.current_operation_ = "NONE"
    /\ s.response_ = NoResponse
    /\ s.measurement_status_ = "PENDING"
    /\ s.last_reading_s_ = 0

\* C14, as stated: when a register read returns fewer registers than
\* requested, loop() calls reset(), and then the pending operations are the
\* five CONFIG_* operations and READ_FIRMWARE_VERSION, the current operation
\* is NONE and there is no response.  Violated: SOFT_RESET is pending too.
C14_Original ==
    [][ShortReads(slast'.obs) # {} =>
          /\ "reset" \in Ops(slast'.obs)
          /\ sensor'.pending_operations_
                = config_operations_ \cup {"READ_FIRMWARE_VERSION"}
          /\ ResetState(sensor')]_vars

\* C14, amended: when a register read returns fewer registers than
\* requested, loop() calls reset(), and then the pending operations are
\* SOFT_RESET, READ_FIRMWARE_VERSION and the five CONFIG_* operations, the
\* current operation is NONE and there is no response.
C14_ShortReadResets ==
    [][ShortReads(slast'.obs) # {} =>
          /\ "reset" \in Ops(slast'.obs)
          /\ sensor'.pending_operations_
                = config_operations_ \cup {"SOFT_RESET", "READ_FIRMWARE_VERSION"}
          /\ ResetState(sensor')]_vars

\* A read of one register came back with none, and reset() has run.
C14_Witness ==
    /\ \E i \in ShortReads(slast.obs) :
          slast.obs[i].value = 1 /\ slast.obs[i].args = <<>>
    /\ "reset" \in Ops(slast.obs)
    /\ "SOFT_RESET" \in sensor.pending_operations_
    /\ ResetState(sensor)

\* The responses that completed during the last call of loop() and that the
\* code takes for a failure: a short one, or an acknowledgement of the
\* SOFT_RESET write that does not hold 0x0001.
FailedResponses(obs) ==
    ShortResponses(obs) \cup
    {i \in DOMAIN obs : /\ obs[i].op = "write_done"
                        /\ obs[i].address = SOFT_RESET_ADDRESS
                        /\ obs[i].args # <<1>>}

FailureLogs == {"emerg", "alert", "crit", "warning"}

\* C15: every short response to a read or a write, and every missing or
\* incorrect acknowledgement of SOFT_RESET, makes loop() call reset(),
\* whatever happened before (no count of failures is kept): the call logs
\* the failure and resets last, and it sends no request and adds no reading,
\* so the operation does not complete and is not current any more, and
\* SOFT_RESET is pending again.
C15_FailedResponseResets ==
    [][FailedResponses(slast'.obs) # {} =>
          /\ Ops(slast'.obs) \cap FailureLogs # {}
          /\ Ops(slast'.obs) \subseteq
                {"read_done", "write_done", "Take measurement", "reset"}
                  \cup FailureLogs
          /\ slast'.obs[Len(slast'.obs)] = SEv("reset", 0, RESET_PRE_DELAY_MS)
          /\ sensor'.pending_operations_
                = config_operations_ \cup {"SOFT_RESET", "READ_FIRMWARE_VERSION"}
          /\ ResetState(sensor')
          /\ sensor'.reset_start_ms_ = clock'
          /\ sensor'.reset_wait_ms_ = RESET_PRE_DELAY_MS
          /\ UNCHANGED rvars]_vars

\* The cycle repeats: the write of SOFT_RESET, which only a reset makes
\* pending, was acknowledged with no register, and reset() has run again.
C15_Witness ==
    /\ \E i \in ShortResponses(slast.obs) :
          slast.obs[i].op = "write_done" /\ slast.obs[i].address = SOFT_RESET_ADDRESS
    /\ "reset" \in Ops(slast.obs)
    /\ "SOFT_RESET" \in sensor.pending_operations_
    /\ ResetState(sensor)

\* The requests loop() sent to the device during a call, and the responses
\* that completed during it.
Requests(obs) == {i \in DOMAIN obs : obs[i].op \in {"read", "write"}}
Completions(obs) == {i \in DOMAIN obs : obs[i].op \in {"read_done", "write_done"}}

\* C16: there is a response handle only while an operation is current; a
\* call sends at most one request, which becomes the handle; and it sends
\* one only if there was no handle, or if the handle's response completed
\* during this call, before the request.
C16_OneTransaction ==
    [][/\ sensor.response_.kind # "none" => sensor.current_operation_ # "NONE"
       /\ sensor'.response_.kind # "none" => sensor'.current_operation_ # "NONE"
       /\ Cardinality(Requests(slast'.obs)) <= 1
       /\ \A i \in Requests(slast'.obs) :
             /\ sensor'.response_.kind = slast'.obs[i].op
             /\ sensor'.response_.address = slast'.obs[i].address
             /\ ~sensor'.response_.done
             /\ \/ sensor.response_.kind = "none"
                \/ /\ ~sensor.response_.done
                   /\ \E j \in Completions(slast'.obs) : j < i]_vars

\* The read of a configuration register completed and the same call sent
\* the write: one handle has taken the place of the other.
C16_Witness ==
    /\ \E i \in Requests(slast.obs), j \in Completions(slast.obs) :
          /\ j < i
          /\ slast.obs[j].op = "read_done"
          /\ slast.obs[i].op = "write"
    /\ sensor.response_.kind = "write"
    /\ ~sensor.response_.done
    /\ sensor.current_operation_ \in config_operations_

\* The register of a configuration operation and the value the settings c
\* ask for in it.
ConfigAddress(op) ==
    CASE op = "CONFIG_AUTOMATIC_CALIBRATION" -> ASC_CONFIG_ADDRESS
      [] op = "CONFIG_TEMPERATURE_OFFSET" -> TEMPERATURE_OFFSET_ADDRESS
      [] op = "CONFIG_ALTITUDE_COMPENSATION" -> ALTITUDE_COMPENSATION_ADDRESS
      [] op = "CONFIG_CONTINUOUS_MEASUREMENT" -> MEASUREMENT_INTERVAL_ADDRESS
      [] op = "CONFIG_AMBIENT_PRESSURE" -> AMBIENT_PRESSURE_ADDRESS
DesiredValue(op, c) ==
    CASE op = "CONFIG_AUTOMATIC_CALIBRATION" -> automatic_calibration(c)
      [] op = "CONFIG_TEMPERATURE_OFFSET" -> temperature_offset(c)
      [] op = "CONFIG_ALTITUDE_COMPENSATION" -> altitude_compensation(c)
      [] op = "CONFIG_CONTINUOUS_MEASUREMENT" -> measurement_interval(c)
      [] op = "CONFIG_AMBIENT_PRESSURE" -> ambient_pressure(c)

\* The operation is over: nothing is current and there is no response.
Finished(s) == s.current_operation_ = "NONE" /\ s.response_ = NoResponse

\* C17: when the read of a configuration operation's register completes
\* with the register, then, if the operation is not CONFIG_AMBIENT_PRESSURE
\* and the register holds the desired value, the call sends no request and
\* the operation is over; otherwise the call sends one write, of the desired
\* value to the same register, and the operation stays current.  When that
\* write is acknowledged, the call sends no request and the operation is
\* over.
C17_ReadModifyWrite ==
    [][\A j \in Completions(slast'.obs) \ ShortResponses(slast'.obs) :
          LET op == sensor.current_operation_
              done == slast'.obs[j]
          IN  op \in config_operations_ =>
                /\ done.address = ConfigAddress(op)
                /\ IF done.op = "read_done"
                      /\ (done.args[1] # DesiredValue(op, settings)
                            \/ op = "CONFIG_AMBIENT_PRESSURE")
                   THEN /\ Cardinality(Requests(slast'.obs)) = 1
                        /\ \A i \in Requests(slast'.obs) :
                              slast'.obs[i] = SEv("write", ConfigAddress(op),
                                                  DesiredValue(op, settings))
                        /\ sensor'.current_operation_ = op
                        /\ sensor'.response_.kind = "write"
                        /\ sensor'.response_.value = DesiredValue(op, settings)
                   ELSE /\ Requests(slast'.obs) = {}
                        /\ Finished(sensor')]_vars

\* The read of the ambient pressure register returned the desired value,
\* and the call has sent the write of it.
C17_Witness ==
    /\ sensor.current_operation_ = "CONFIG_AMBIENT_PRESSURE"
    /\ \E j \in Completions(slast.obs) :
          /\ slast.obs[j].op = "read_done"
          /\ slast.obs[j].address = AMBIENT_PRESSURE_ADDRESS
          /\ slast.obs[j].args = <<ambient_pressure(settings)>>
    /\ \E i \in Requests(slast.obs) :
          slast.obs[i] = SEv("write", AMBIENT_PRESSURE_ADDRESS,
                             ambient_pressure(settings))

\* The acknowledgements of the SOFT_RESET write that completed during a call.
ResetAcks(obs) ==
    {j \in Completions(obs) : obs[j].address = SOFT_RESET_ADDRESS}

\* C18: the write of 0x0001 to the reset register is sent only when the
\* delay given to reset() has elapsed since reset(); the call that sees the
\* acknowledgement 0x0001 keeps SOFT_RESET current and starts the post-reset
\* delay; SOFT_RESET stops being current only by a reset(), or, the
\* acknowledgement seen in an earlier call, when RESET_POST_DELAY_MS has
\* elapsed since, and then nothing is current and the measurement status is
\* IDLE; any other acknowledgement, or none, makes the call reset() with the
\* default delay starting now.
C18_SoftReset ==
    [][/\ \A i \in Requests(slast'.obs) :
             slast'.obs[i].address = SOFT_RESET_ADDRESS =>
                /\ slast'.obs[i] = SEv("write", SOFT_RESET_ADDRESS, 1)
                /\ sensor.response_.kind = "none"
                /\ Elapsed(clock', sensor.reset_start_ms_) >= sensor.reset_wait_ms_
                /\ sensor'.current_operation_ = "SOFT_RESET"
                /\ ~sensor'.reset_complete_
       /\ \A j \in ResetAcks(slast'.obs) :
             IF slast'.obs[j].args = <<1>>
             THEN /\ sensor'.current_operation_ = "SOFT_RESET"
                  /\ sensor'.response_.done
                  /\ sensor'.reset_complete_
                  /\ sensor'.reset_start_ms_ = clock'
                  /\ sensor'.measurement_status_ = "PENDING"
             ELSE /\ slast'.obs[Len(slast'.obs)] = SEv("reset", 0, RESET_PRE_DELAY_MS)
                  /\ "SOFT_RESET" \in sensor'.pending_operations_
                  /\ ResetState(sensor')
                  /\ sensor'.reset_start_ms_ = clock'
                  /\ sensor'.reset_wait_ms_ = RESET_PRE_DELAY_MS
       /\ (sensor.current_operation_ = "SOFT_RESET"
             /\ sensor'.current_operation_ # "SOFT_RESET") =>
             \/ "reset" \in Ops(slast'.obs)
             \/ /\ sensor.response_.done
                /\ sensor.reset_complete_
                /\ Elapsed(clock', sensor.reset_start_ms_) >= RESET_POST_DELAY_MS
                /\ Finished(sensor')
                /\ sensor'.measurement_status_ = "IDLE"]_vars

\* The reset has been through: the acknowledgement was seen when the
\* millisecond counter was at 0, the post-reset delay has elapsed, nothing
\* is current, the measurement status is IDLE and the operations that
\* reset() made pending with SOFT_RESET are still to run.
C18_Witness ==
    /\ Finished(sensor)
    /\ sensor.measurement_status_ = "IDLE"
    /\ sensor.reset_complete_
    /\ sensor.reset_wait_ms_ = RESET_PRE_DELAY_MS
    /\ sensor.reset_start_ms_ = 0
    /\ clock = RESET_PRE_DELAY_MS
    /\ sensor.pending_operations_
          = config_operations_ \cup {"READ_FIRMWARE_VERSION"}
    /\ slast.obs = <<>>

\* A measurement is pending or in flight.
MeasurementUnderWay(s) ==
    \/ "TAKE_MEASUREMENT" \in s.pending_operations_
    \/ s.current_operation_ = "TAKE_MEASUREMENT"

\* C19: TAKE_MEASUREMENT becomes pending (or current at once, in the same
\* call) only in a call of loop() that found the measurement status IDLE
\* and the interval above 0 and read a time that is a multiple of the
\* interval and above the time of the last reading; the status is not IDLE
\* while a measurement is pending or in flight, and TAKE_MEASUREMENT is
\* never pending while it is current, so there is one measurement at most.
C19_MeasurementDue ==
    [][/\ (~MeasurementUnderWay(sensor) /\ MeasurementUnderWay(sensor')) =>
             /\ sensor.measurement_status_ = "IDLE"
             /\ sensor.interval_ > 0
             /\ \E i \in DOMAIN slast'.obs :
                   /\ slast'.obs[i].op = "Take measurement"
                   /\ slast'.obs[i].value % sensor.interval_ = 0
                   /\ slast'.obs[i].value > sensor.last_reading_s_
       /\ "Take measurement" \in Ops(slast'.obs) =>
             /\ ~MeasurementUnderWay(sensor)
             /\ MeasurementUnderWay(sensor') \/ "reset" \in Ops(slast'.obs)
       /\ MeasurementUnderWay(sensor') =>
             /\ sensor'.measurement_status_ # "IDLE"
             /\ ~ /\ "TAKE_MEASUREMENT" \in sensor'.pending_operations_
                  /\ sensor'.current_operation_ = "TAKE_MEASUREMENT"]_vars

\* A measurement has become due while another operation was current: it
\* is pending, and the status is PENDING.
C19_Witness ==
    /\ \E i \in DOMAIN slast.obs :
          /\ slast.obs[i].op = "Take measurement"
          /\ slast.obs[i].value = BASELINE
    /\ "TAKE_MEASUREMENT" \in sensor.pending_operations_
    /\ sensor.current_operation_ \notin {"NONE", "TAKE_MEASUREMENT"}
    /\ sensor.measurement_status_ = "PENDING"
    /\ sensor.interval_ = 2

\* The responses to the read of the measurement data that completed during
\* a call, and the calls of Report::add() made during it.
MeasurementReads(obs) ==
    {j \in Completions(obs) : obs[j].address = MEASUREMENT_DATA_ADDRESS}
Adds(obs) == {i \in DOMAIN obs : obs[i].op = "add"}

\* C20: when the read of the measurement data completes with six
\* registers, the call makes one call of Report::add(), with the time
\* current_time() returned in this call, the temperature and the humidity
\* decoded, and the CO2 decoded, or not-a-number if that is not at least
\* MINIMUM_CO2_PPM; then the measurement status is IDLE, nothing is current
\* and the time is the time of the last reading.  When it completes with
\* fewer, the call resets and does not call Report::add().  No other call
\* calls Report::add().
C20_MeasurementCompletion ==
    [][/\ \A j \in MeasurementReads(slast'.obs) :
             LET data == slast'.obs[j].args
                 co2 == convert_f(SubSeq(data, 1, 2))
             IN  IF Len(data) = 6
                 THEN /\ Cardinality(Adds(slast'.obs)) = 1
                      /\ \A i \in Adds(slast'.obs) :
                            /\ \E k \in 1..(i - 1) :
                                  slast'.obs[k] = SEv("current_time", 0,
                                                      slast'.obs[i].value)
                            /\ slast'.obs[i].args =
                                  <<convert_f(SubSeq(data, 3, 4)),
                                    convert_f(SubSeq(data, 5, 6)),
                                    IF FloatGeq(co2, MINIMUM_CO2_PPM)
                                    THEN co2 ELSE FloatNaN>>
                            /\ sensor'.last_reading_s_ = slast'.obs[i].value
                            /\ sensor'.temperature_c_ = slast'.obs[i].args[1]
                            /\ sensor'.relative_humidity_pc_ = slast'.obs[i].args[2]
                            /\ sensor'.co2_ppm_ = slast'.obs[i].args[3]
                      /\ sensor'.measurement_status_ = "IDLE"
                      /\ Finished(sensor')
                      /\ last'.call = "add"
                 ELSE /\ Adds(slast'.obs) = {}
                      /\ "reset" \in Ops(slast'.obs)
                      /\ ResetState(sensor')
                      /\ UNCHANGED rvars
       /\ MeasurementReads(slast'.obs) = {} =>
             Adds(slast'.obs) = {} /\ UNCHANGED rvars]_vars

\* A measurement of 150 ppm, 21.5 C and 45 % has completed: the reading
\* was added with its temperature and humidity and with no CO2, and the
\* Report object has stored it.
C20_Witness ==
    /\ \E i \in Adds(slast.obs) :
          /\ slast.obs[i].value = BASELINE + 1
          /\ slast.obs[i].args = <<[cls |-> "normal", v |-> 21500],
                                   [cls |-> "normal", v |-> 45000],
                                   FloatNaN>>
    /\ sensor.measurement_status_ = "IDLE"
    /\ Finished(sensor)
    /\ sensor.last_reading_s_ = BASELINE + 1
    /\ report.readings_ # <<>>
    /\ report.readings_[Len(report.readings_)] =
          [timestamp |-> BASELINE + 1, temperature_c |-> 2150,
           relative_humidity_pc |-> 4500, co2_ppm |-> CO2_NAN]

(***************************************************************************)
(* Properties of the calibration, checked under CalibrateSpec.             *)
(***************************************************************************)
\* The calls of calibrate() recorded in obs, and the writes to the
\* forced-recalibration register and their acknowledgements.
CalibrateCalls(obs) == {i \in DOMAIN obs : obs[i].op = "calibrate"}
CalibrationWrites(obs) ==
    {i \in Requests(obs) : obs[i].address = FORCED_RECALIBRATION_ADDRESS}
CalibrationAcks(obs) ==
    {j \in Completions(obs) : obs[j].address = FORCED_RECALIBRATION_ADDRESS}

\* C21: calibrate(ppm) with ppm in the range sets calibration_ppm_ to ppm
\* and makes CALIBRATE pending, and changes nothing else; with ppm outside
\* it changes nothing; no other call changes calibration_ppm_; the CALIBRATE
\* operation sends one write, of calibration_ppm_ to the forced-recalibration
\* register; when the write is acknowledged with a register the operation
\* is over, and when it is acknowledged with none the call resets.
C21_Calibrate ==
    [][/\ \A i \in CalibrateCalls(slast'.obs) :
             LET ppm == slast'.obs[i].value
             IN  IF MINIMUM_CALIBRATION_PPM <= ppm /\ ppm <= MAXIMUM_CALIBRATION_PPM
                 THEN sensor' = [sensor EXCEPT
                                   !.calibration_ppm_ = ppm,
                                   !.pending_operations_ = @ \cup {"CALIBRATE"}]
                 ELSE sensor' = sensor
       /\ CalibrateCalls(slast'.obs) = {} =>
             sensor'.calibration_ppm_ = sensor.calibration_ppm_
       /\ \A i \in CalibrationWrites(slast'.obs) :
             /\ slast'.obs[i] = SEv("write", FORCED_RECALIBRATION_ADDRESS,
                                    sensor.calibration_ppm_)
             /\ sensor'.current_operation_ = "CALIBRATE"
             /\ "CALIBRATE" \notin sensor'.pending_operations_
             /\ Cardinality(Requests(slast'.obs)) = 1
       /\ \A j \in CalibrationAcks(slast'.obs) :
             /\ sensor.current_operation_ = "CALIBRATE"
             /\ Requests(slast'.obs) = {}
             /\ IF Len(slast'.obs[j].args) >= 1
                THEN Finished(sensor') /\ "reset" \notin Ops(slast'.obs)
                ELSE /\ "reset" \in Ops(slast'.obs)
                     /\ ResetState(sensor')
                     /\ "CALIBRATE" \notin sensor'.pending_operations_]_vars

\* calibrate() was called with the upper bound while the write of the lower
\* bound was under way: the new value is recorded and CALIBRATE is pending
\* again.
C21_Witness ==
    /\ \E i \in CalibrateCalls(slast.obs) :
          slast.obs[i].value = MAXIMUM_CALIBRATION_PPM
    /\ sensor.calibration_ppm_ = MAXIMUM_CALIBRATION_PPM
    /\ "CALIBRATE" \in sensor.pending_operations_
    /\ sensor.current_operation_ = "CALIBRATE"
    /\ sensor.response_.kind = "write"
    /\ sensor.response_.address = FORCED_RECALIBRATION_ADDRESS
    /\ sensor.response_.value = MINIMUM_CALIBRATION_PPM

(***************************************************************************)
(* Liveness of Sensor, checked under FairSpec.                             *)
(***************************************************************************)
OperationKinds == {Operations[i] : i \in DOMAIN Operations}

\* In every state after start() a call of loop() at a later time returns,
\* with an operation current or none, and changes the state; and the
\* operation that is current ends.
OperationEnds ==
    /\ [](slast.started =>
            \E in \in SensorInputs :
               /\ in.ms # clock
               /\ Sensor_loop(sensor, settings, in).current_operation_
                     \in OperationKinds \cup {"NONE"})
    /\ (sensor.current_operation_ # "NONE") ~> (sensor.current_operation_ = "NONE")

\* C22, as stated: there is no state in which nothing can happen, every
\* operation that is current ends, and every operation that is pending
\* becomes current.  Violated: reset() clears the pending operations, so an
\* operation that was pending when a response is short, or when the
\* measurement times out, may never run.
C22_Original ==
    /\ OperationEnds
    /\ \A op \in OperationKinds :
          (op \in sensor.pending_operations_) ~> (sensor.current_operation_ = op)

\* C22, amended: there is no state in which nothing can happen, every
\* operation that is current ends, and every operation that is pending
\* becomes current unless a reset() comes first.
C22_Progress ==
    /\ OperationEnds
    /\ \A op \in OperationKinds :
          (op \in sensor.pending_operations_) ~>
             (sensor.current_operation_ = op \/ "reset" \in Ops(slast.obs))

\* A measurement waits for the ready pin while a calibration is pending:
\* the one ends by the pin or by the timeout, the other runs after it or is
\* cleared by the reset of the timeout.
C22_Witness ==
    /\ sensor.current_operation_ = "TAKE_MEASUREMENT"
    /\ sensor.measurement_status_ = "WAITING"
    /\ sensor.response_.kind = "none"
    /\ "CALIBRATE" \in sensor.pending_operations_

(***************************************************************************)
(* C23, C24: the fixed-point fields of a Reading.                          *)
(***************************************************************************)
\* The floats a Reading was constructed from, and the Reading.
ReadingArgs == last.obs[1]
Constructed == last.call = "Reading" /\ report.readings_ # <<>>
StoredReading == report.readings_[1]

\* A finite float, and one whose scaled value lies within the field's limits.
Finite(f) == f.cls \in {"normal", "zero"}
InRange(f, min, max, div) ==
    Finite(f) /\ min * 1000 <= f.v * div /\ f.v * div <= max * 1000

\* The stored value divided by the scale, in thousandths.
Decoded(stored, div) == (stored * 1000) \div div

\* The field holds the float to within one step of the field when the float
\* is in range, and the nearer limit when it is a number out of range.
FieldRoundTrips(f, stored, min, max, div) ==
    /\ InRange(f, min, max, div) =>
          Abs(Decoded(stored, div) - f.v) <= 1000 \div div
    /\ Finite(f) /\ f.v * div > max * 1000 => stored = max
    /\ Finite(f) /\ f.v * div < min * 1000 => stored = min

\* C23: encoding a Reading's fields and decoding them (stored value divided
\* by the scale) gives the input back to within the field's resolution for
\* every input in range, and an input out of range is stored as the field's
\* minimum or maximum, not wrapped.
C23_Original ==
    Constructed =>
       /\ FieldRoundTrips(ReadingArgs.temperature_c_, StoredReading.temperature_c,
                          TEMP_MIN, TEMP_MAX, TEMP_DIV)
       /\ FieldRoundTrips(ReadingArgs.relative_humidity_pc_,
                          StoredReading.relative_humidity_pc,
                          RHUM_MIN, RHUM_MAX, RHUM_DIV)
       /\ FieldRoundTrips(ReadingArgs.co2_ppm_, StoredReading.co2_ppm,
                          CO2_MIN, CO2_MAX, CO2_DIV)

\* The same for every float that is not zero.
C23_NonZero ==
    Constructed =>
       /\ isnormal(ReadingArgs.temperature_c_) =>
             FieldRoundTrips(ReadingArgs.temperature_c_, StoredReading.temperature_c,
                             TEMP_MIN, TEMP_MAX, TEMP_DIV)
       /\ isnormal(ReadingArgs.relative_humidity_pc_) =>
             FieldRoundTrips(ReadingArgs.relative_humidity_pc_,
                             StoredReading.relative_humidity_pc,
                             RHUM_MIN, RHUM_MAX, RHUM_DIV)
       /\ isnormal(ReadingArgs.co2_ppm_) =>
             FieldRoundTrips(ReadingArgs.co2_ppm_, StoredReading.co2_ppm,
                             CO2_MIN, CO2_MAX, CO2_DIV)

\* A Reading constructed from a temperature of zero holds the sentinel.
C23_Witness ==
    /\ Constructed
    /\ ReadingArgs.temperature_c_ = FloatZero
    /\ StoredReading.temperature_c = TEMP_NAN

\* C24: a float that is not finite (NaN, +infinity, -infinity) is stored as
\* the field's sentinel, and a float that is stored as a clamped number is
\* never stored as the sentinel.
C24_NonFiniteIsSentinel ==
    Constructed =>
       /\ ~Finite(ReadingArgs.temperature_c_) => StoredReading.temperature_c = TEMP_NAN
       /\ ~Finite(ReadingArgs.relative_humidity_pc_) =>
             StoredReading.relative_humidity_pc = RHUM_NAN
       /\ ~Finite(ReadingArgs.co2_ppm_) => StoredReading.co2_ppm = CO2_NAN
       /\ isnormal(ReadingArgs.temperature_c_) =>
             /\ StoredReading.temperature_c # TEMP_NAN
             /\ StoredReading.temperature_c \in TEMP_MIN .. TEMP_MAX
       /\ isnormal(ReadingArgs.relative_humidity_pc_) =>
             /\ StoredReading.relative_humidity_pc # RHUM_NAN
             /\ StoredReading.relative_humidity_pc \in RHUM_MIN .. RHUM_MAX
       /\ isnormal(ReadingArgs.co2_ppm_) =>
             /\ StoredReading.co2_ppm # CO2_NAN
             /\ StoredReading.co2_ppm \in CO2_MIN .. CO2_MAX

\* A Reading constructed from an infinite temperature, no humidity and a
\* concentration beyond the field's limit.
C24_Witness ==
    /\ Constructed
    /\ ReadingArgs.temperature_c_ = FloatInf
    /\ ReadingArgs.relative_humidity_pc_ = FloatNaN
    /\ ReadingArgs.co2_ppm_ = Float(60000000)
    /\ StoredReading.temperature_c = TEMP_NAN
    /\ StoredReading.relative_humidity_pc = RHUM_NAN
    /\ StoredReading.co2_ppm = CO2_MAX

(***************************************************************************)
(* C25: the selection of the next operation.                               *)
(***************************************************************************)
\* The operations pending when the call coming to an end reached the
\* switch: those pending before it, and the measurement it asked for.
PendingAtDispatch ==
    sensor.pending_operations_
       \cup (IF "Take measurement" \in Ops(slast'.obs)
             THEN {"TAKE_MEASUREMENT"} ELSE {})

\* The first step of the operation now current was taken: its request was
\* sent; or it is SOFT_RESET and the delay before the reset has not elapsed;
\* or it is TAKE_MEASUREMENT and it has begun to wait for the ready pin.
FirstStepTaken ==
    \/ /\ Cardinality(Requests(slast'.obs)) = 1
       /\ sensor'.response_.kind # "none"
    \/ /\ sensor'.current_operation_ = "SOFT_RESET"
       /\ Elapsed(clock', sensor'.reset_start_ms_) < sensor'.reset_wait_ms_
    \/ /\ sensor'.current_operation_ = "TAKE_MEASUREMENT"
       /\ sensor'.measurement_status_ = "WAITING"
       /\ sensor'.measurement_start_ms_ = clock'

\* C25: a call of loop() that finds no operation current and one pending
\* makes current the pending operation of the lowest number, removes it from
\* the pending set and takes its first step; an operation becomes current
\* only so, hence never while one of a lower number is pending.
C25_Selection ==
    [][/\ /\ sensor.current_operation_ = "NONE"
          /\ clock' # clock
          /\ PendingAtDispatch # {}
          => sensor'.current_operation_ # "NONE"
       /\ sensor'.current_operation_ # sensor.current_operation_
          /\ sensor'.current_operation_ # "NONE"
          => /\ sensor.current_operation_ = "NONE"
             /\ sensor'.current_operation_ \in PendingAtDispatch
             /\ \A op \in PendingAtDispatch :
                   OperationBit(sensor'.current_operation_) <= OperationBit(op)
             /\ sensor'.pending_operations_ =
                   PendingAtDispatch \ {sensor'.current_operation_}
             /\ FirstStepTaken]_vars

\* The altitude compensation is current and has sent its read, with the
\* three operations above it pending and none below.
C25_Witness ==
    /\ sensor.current_operation_ = "CONFIG_ALTITUDE_COMPENSATION"
    /\ sensor.pending_operations_ =
          {"CONFIG_CONTINUOUS_MEASUREMENT", "CONFIG_AMBIENT_PRESSURE",
           "TAKE_MEASUREMENT"}
    /\ "read" \in Ops(slast.obs)

(***************************************************************************)
(* C26: the transitions of the upload pipeline.                            *)
(***************************************************************************)
\* The steps of the pipeline: forward by one state, from CLEANUP round to
\* IDLE, and from SEND and RECEIVE back to IDLE.
PipelineSteps ==
    {<<"IDLE", "CONNECT">>, <<"CONNECT", "SEND">>, <<"SEND", "RECEIVE">>,
     <<"RECEIVE", "CLEANUP">>, <<"CLEANUP", "IDLE">>,
     <<"SEND", "IDLE">>, <<"RECEIVE", "IDLE">>}

\* C26: the pipeline's state changes only by a step along IDLE, CONNECT,
\* SEND, RECEIVE, CLEANUP, IDLE, or from SEND or RECEIVE back to IDLE, or to
\* IDLE in config(); a call of add() or of loop() takes at most one such
\* step, and no state is skipped.
C26_PipelineSteps ==
    [][report'.state_ # report.state_ =>
          \/ /\ last'.call \in {"add", "loop"}
             /\ <<report.state_, report'.state_>> \in PipelineSteps
          \/ /\ last'.call = "config"
             /\ report'.state_ = "IDLE"]_vars

\* A tick took the pipeline from RECEIVE to CLEANUP.
C26_Witness ==
    /\ last.call = "loop"
    /\ last.state = "RECEIVE"
    /\ report.state_ = "CLEANUP"

(***************************************************************************)
(* C27: what one call of loop() does for the operation.                    *)
(***************************************************************************)
\* The operation at the switch of a call of loop() that ends in state t: the
\* one that was current, or else the one the call selected.
Dispatched(t) ==
    IF sensor.current_operation_ # "NONE"
    THEN sensor.current_operation_ ELSE t.current_operation_

\* The operation waits in this call: SOFT_RESET for the delay given to
\* reset(), TAKE_MEASUREMENT for the ready pin.
Waits(op, in) ==
    \/ /\ op = "SOFT_RESET"
       /\ Elapsed(in.ms, sensor.reset_start_ms_) < sensor.reset_wait_ms_
    \/ /\ op = "TAKE_MEASUREMENT"
       /\ ~in.ready

\* C27, as stated: a call of loop() with an operation and no transaction in
\* flight sends exactly one request; and a call in which the transaction
\* completes and which sends no further request ends with no operation
\* current.
C27_Original ==
    slast.started =>
       \A in \in SensorInputs :
          LET t == Sensor_loop(sensor, settings, in)
          IN  /\ Dispatched(t) # "NONE" /\ sensor.response_.kind = "none"
                 => Cardinality(Requests(t.obs)) = 1
              /\ Completions(t.obs) # {} /\ Requests(t.obs) = {}
                 => t.current_operation_ = "NONE"

\* C27: a call of loop() with an operation and no transaction in flight
\* sends exactly one request, unless the operation is SOFT_RESET before its
\* delay has elapsed or TAKE_MEASUREMENT with the ready pin low, when it
\* sends none; and a call in which the transaction completes and which sends
\* no further request ends with no operation current, unless it is
\* SOFT_RESET acknowledged, which stays current for the delay after it.
C27_OneStep ==
    slast.started =>
       \A in \in SensorInputs :
          LET t == Sensor_loop(sensor, settings, in)
              op == Dispatched(t)
          IN  /\ op # "NONE" /\ sensor.response_.kind = "none"
                 => Cardinality(Requests(t.obs)) =
                       IF Waits(op, in) THEN 0 ELSE 1
              /\ Completions(t.obs) # {} /\ Requests(t.obs) = {}
                 => \/ t.current_operation_ = "NONE"
                    \/ /\ op = "SOFT_RESET"
                       /\ t.current_operation_ = "SOFT_RESET"
                       /\ t.reset_complete_
                       /\ t.reset_start_ms_ = in.ms

\* The reading of the firmware version ended in the call that completed its
\* read, and the call sent no request.
C27_Witness ==
    /\ sensor.current_operation_ = "NONE"
    /\ \E j \in Completions(slast.obs) :
          slast.obs[j].address = FIRMWARE_VERSION_ADDRESS
    /\ Requests(slast.obs) = {}
    /\ "reset" \notin Ops(slast.obs)

(***************************************************************************)
(* C28: no measurement between reset() and the end of SOFT_RESET.          *)
(***************************************************************************)
\* reset() has been called and the SOFT_RESET it asked for is not over.
Resetting(s) ==
    \/ "SOFT_RESET" \in s.pending_operations_
    \/ s.current_operation_ = "SOFT_RESET"

MeasurementRequests(obs) ==
    {i \in Requests(obs) : obs[i].address = MEASUREMENT_DATA_ADDRESS}

\* C28: from a call of reset() until SOFT_RESET is over, which it is only
\* when the reset has been acknowledged and the delay after it has elapsed,
\* the measurement status is not IDLE, TAKE_MEASUREMENT is neither pending
\* nor current, and no read of the measurement data is sent.
C28_NoMeasurementInReset ==
    [][/\ "reset" \in Ops(slast'.obs) => Resetting(sensor')
       /\ Resetting(sensor') =>
             /\ sensor'.measurement_status_ # "IDLE"
             /\ ~MeasurementUnderWay(sensor')
       /\ Resetting(sensor) \/ Resetting(sensor') =>
             MeasurementRequests(slast'.obs) = {}
       /\ Resetting(sensor) /\ ~Resetting(sensor') =>
             /\ sensor.current_operation_ = "SOFT_RESET"
             /\ sensor.response_.done
             /\ sensor.response_.data = <<1>>
             /\ sensor.reset_complete_
             /\ Elapsed(clock', sensor.reset_start_ms_) >= RESET_POST_DELAY_MS]_vars

\* A measurement had been stored when reset() was called; the reset has been
\* acknowledged and the delay after it is running, at a time when a
\* measurement would be due.
C28_Witness ==
    /\ sensor.current_operation_ = "SOFT_RESET"
    /\ sensor.reset_complete_
    /\ sensor.response_.done
    /\ sensor.measurement_status_ = "PENDING"
    /\ sensor.interval_ > 0
    /\ report.readings_ # <<>>

(***************************************************************************)
(* C29: the ready pin and the measurement's timeout.                       *)
(***************************************************************************)
\* The times ::millis() may return in a call of loop(), counted from the
\* time of the call before: the same, one short of the timeout, the timeout
\* and the longest delay.
TimeoutSteps ==
    {0, MEASUREMENT_TIMEOUT_MS - 1, MEASUREMENT_TIMEOUT_MS, RESET_PRE_DELAY_MS}

\* C29: a call of loop() sends the read of the measurement data, of six
\* registers, only for TAKE_MEASUREMENT and only if it finds the ready pin
\* HIGH; the first call that finds the pin LOW records the time and sets the
\* status WAITING; a later call that finds it LOW calls reset() if
\* MEASUREMENT_TIMEOUT_MS has elapsed since that time, and else changes
\* nothing.
C29_ReadyTimeout ==
    slast.started =>
       \A in0 \in SensorInputs, d \in TimeoutSteps :
          LET in == [in0 EXCEPT !.ms = (clock + d) % MillisModulus]
              t == Sensor_loop(sensor, settings, in)
              op == Dispatched(t)
          IN  /\ \A i \in MeasurementRequests(t.obs) :
                    /\ t.obs[i] = SEv("read", MEASUREMENT_DATA_ADDRESS, 6)
                    /\ op = "TAKE_MEASUREMENT"
                    /\ in.ready
              /\ op = "TAKE_MEASUREMENT" /\ sensor.response_.kind = "none" =>
                    IF in.ready
                    THEN Cardinality(MeasurementRequests(t.obs)) = 1
                    ELSE IF sensor.measurement_status_ # "WAITING"
                    THEN /\ t.current_operation_ = "TAKE_MEASUREMENT"
                         /\ t.measurement_status_ = "WAITING"
                         /\ t.measurement_start_ms_ = in.ms
                         /\ Requests(t.obs) = {}
                    ELSE IF Elapsed(in.ms, sensor.measurement_start_ms_)
                               >= MEASUREMENT_TIMEOUT_MS
                    THEN /\ t.obs = <<SEv("alert", 0, 0),
                                      SEv("reset", 0, RESET_PRE_DELAY_MS)>>
                         /\ ResetState(t)
                         /\ "SOFT_RESET" \in t.pending_operations_
                    ELSE t = sensor

\* The measurement timed out: the call found the pin still LOW and reset.
C29_Witness ==
    /\ slast.obs = <<SEv("alert", 0, 0), SEv("reset", 0, RESET_PRE_DELAY_MS)>>
    /\ ResetState(sensor)
    /\ sensor.measurement_start_ms_ # clock
    /\ sensor.reset_start_ms_ = clock

(***************************************************************************)
(* C30: the values written to the configuration registers.                 *)
(***************************************************************************)
\* v brought into lo .. hi.
Clamped(v, lo, hi) == IF v < lo THEN lo ELSE IF v > hi THEN hi ELSE v

\* The value the settings c ask for in the register at the address.
LegalValue(address, c) ==
    CASE address = ASC_CONFIG_ADDRESS ->
            IF c.sensor_automatic_calibration THEN 1 ELSE 0
      [] address = TEMPERATURE_OFFSET_ADDRESS ->
            Clamped(c.sensor_temperature_offset, 0, 65535)
      [] address = ALTITUDE_COMPENSATION_ADDRESS ->
            Clamped(c.sensor_altitude_compensation, 0, 65535)
      [] address = MEASUREMENT_INTERVAL_ADDRESS ->
            Clamped(c.sensor_measurement_interval, 2, 1800)
      [] address = AMBIENT_PRESSURE_ADDRESS ->
            IF c.sensor_ambient_pressure = 0 THEN 0
            ELSE Clamped(c.sensor_ambient_pressure, 700, 1200)

ConfigAddresses ==
    {ASC_CONFIG_ADDRESS, TEMPERATURE_OFFSET_ADDRESS, ALTITUDE_COMPENSATION_ADDRESS,
     MEASUREMENT_INTERVAL_ADDRESS, AMBIENT_PRESSURE_ADDRESS}

ConfigWrites(obs) ==
    {i \in DOMAIN obs : obs[i].op = "write" /\ obs[i].address \in ConfigAddresses}

\* C30: the value a call of loop() writes to a configuration register is
\* the one the settings at the time of the call, which is the one that sees
\* the read's response, ask for: 0 or 1 for the automatic calibration; the
\* temperature offset and the altitude brought into 0 .. 65535; the
\* measurement interval brought into 2 .. 1800; the ambient pressure 0 when
\* it is set to 0 and else brought into 700 .. 1200.
C30_ConfigValues ==
    [][\A i \in ConfigWrites(slast'.obs) :
          LET e == slast'.obs[i]
          IN  /\ e.value = LegalValue(e.address, settings)
              /\ e.value \in 0 .. UINT16_MAX
              /\ e.address = MEASUREMENT_INTERVAL_ADDRESS => e.value \in 2 .. 1800
              /\ e.address = AMBIENT_PRESSURE_ADDRESS =>
                    e.value \in {0} \cup (700 .. 1200)
              /\ \E j \in Completions(slast'.obs) :
                    /\ j < i
                    /\ slast'.obs[j].op = "read_done"
                    /\ slast'.obs[j].address = e.address]_vars

\* The ambient pressure is set to 1, and the call that saw the response to
\* the read of its register wrote 700.
C30_Witness ==
    /\ settings.sensor_ambient_pressure = 1
    /\ \E i \in ConfigWrites(slast.obs) :
          slast.obs[i] = SEv("write", AMBIENT_PRESSURE_ADDRESS, 700)

ResetOperations == {"SOFT_RESET", "READ_FIRMWARE_VERSION"} \cup config_operations_

\* Those of them that are still to run or running.
Armed(s) ==
    (s.pending_operations_ \cup {s.current_operation_}) \cap ResetOperations

\* C32: with every request completing in full and nothing asked from
\* outside, a call of loop() that does not call reset() makes none of the
\* operations of reset() pending again; one of them becomes current only
\* when it is the lowest of those still to run, and is then no longer
\* pending; one stops being one of them only by having been current, and is
\* then not pending; and while SOFT_RESET is pending or current the only
\* request sent is the write of 0x0001 to the reset register.
C32_ResetOrder ==
    [][/\ "reset" \in Ops(slast'.obs) =>
             /\ Armed(sensor') = ResetOperations
             /\ sensor'.current_operation_ = "NONE"
       /\ "reset" \notin Ops(slast'.obs) =>
             /\ Armed(sensor') \subseteq Armed(sensor)
             /\ \A op \in Armed(sensor) \ Armed(sensor') :
                   sensor.current_operation_ = op
             /\ sensor.current_operation_ \in ResetOperations
                   /\ sensor'.current_operation_ # sensor.current_operation_
                => sensor.current_operation_ \notin Armed(sensor')
       /\ sensor'.current_operation_ # sensor.current_operation_
             /\ sensor'.current_operation_ \in ResetOperations =>
             /\ \A op \in Armed(sensor) :
                   OperationBit(sensor'.current_operation_) <= OperationBit(op)
             /\ sensor'.current_operation_ \notin sensor'.pending_operations_
       /\ sensor'.current_operation_ = "TAKE_MEASUREMENT" => Armed(sensor') = {}
       /\ Resetting(sensor) =>
             \A i \in Requests(slast'.obs) :
                slast'.obs[i] = SEv("write", SOFT_RESET_ADDRESS, 1)]_vars

\* The seven operations have run: the last of them, the ambient pressure,
\* has had its write acknowledged, and none is pending or current.
C32_Witness ==
    /\ Armed(sensor) = {}
    /\ sensor.current_operation_ = "NONE"
    /\ sensor.reset_complete_
    /\ sensor.firmware_major_ # 0
    /\ \E j \in Completions(slast.obs) :
          /\ slast.obs[j].op = "write_done"
          /\ slast.obs[j].address = AMBIENT_PRESSURE_ADDRESS

(***************************************************************************)
(* C33: the buffer is not empty while an upload is under way.              *)
(***************************************************************************)
\* C33: in every reachable state where the pipeline is not IDLE the buffer
\* holds a reading; and a SEND step (of loop(), or of an add() that stored
\* its reading) encodes at least one reading, so it sends a POST and never
\* logs that it failed to encode any.
C33_BufferNotEmpty ==
    [][/\ report'.state_ # "IDLE" => report'.readings_ # <<>>
       /\ /\ last'.state = "SEND"
          /\ \/ last'.call = "loop"
             \/ last'.call = "add" /\ "emplace" \in Ops(last'.obs)
          => /\ report.readings_ # <<>>
             /\ Count(last'.obs, "POST") = 1
             /\ report'.upload_ts_first_ # 0
             /\ report'.upload_ts_first_ \in
                   {x.timestamp : x \in Readings(report'.readings_)}]_vars

\* The payload was sent with one reading in the buffer.
C33_Witness ==
    /\ last.state = "SEND"
    /\ last.call = "loop"
    /\ "POST" \in Ops(last.obs)
    /\ Len(report.readings_) = 1

(***************************************************************************)
(* C34: the measurement status does not stall.                             *)
(***************************************************************************)
\* The measurement status is WAITING only while TAKE_MEASUREMENT is current,
\* and other than IDLE only while a measurement or a reset is under way.
StatusAccounted ==
    /\ sensor.measurement_status_ = "WAITING" =>
          sensor.current_operation_ = "TAKE_MEASUREMENT"
    /\ sensor.measurement_status_ # "IDLE" =>
          MeasurementUnderWay(sensor) \/ Resetting(sensor)

\* C34, as stated: so in every reachable state; and the status always
\* returns to IDLE.
C34_Original ==
    /\ []StatusAccounted
    /\ (sensor.measurement_status_ # "IDLE") ~> (sensor.measurement_status_ = "IDLE")

\* C34: so in every reachable state; and the status always returns to IDLE
\* or reset() is called again.
C34_StatusReturns ==
    /\ []StatusAccounted
    /\ (sensor.measurement_status_ # "IDLE") ~>
          \/ sensor.measurement_status_ = "IDLE"
          \/ "reset" \in Ops(slast.obs)

\* The measurement is waiting for the ready pin.
C34_Witness ==
    /\ sensor.measurement_status_ = "WAITING"
    /\ sensor.current_operation_ = "TAKE_MEASUREMENT"
    /\ sensor.response_.kind = "none"
    /\ sensor.reset_complete_

(***************************************************************************)
(* C35: the payload text of a reading's fields.                            *)
(***************************************************************************)
Encoded == last.call = "encode" /\ last.obs # <<>>
EncodedReading == report.readings_[1]

\* A stored value divided by its scale, with two decimals and its sign:
\* -50 at a scale of 100 is -0.50.
Rendered(stored, div) ==
    (IF stored < 0 THEN <<"-">> ELSE <<>>)
    \o utoa(Abs(stored) \div div)
    \o <<".">>
    \o utoa02((Abs(stored) % div) * (100 \div div))

\* The text a field is to have: its name, then nothing for the sentinel.
FieldText(name, stored, nan, div) ==
    <<"&", name, "=">> \o (IF stored = nan THEN <<>> ELSE Rendered(stored, div))

\* C35: the payload text of every field that is not the sentinel is the
\* stored value divided by its scale (100, 100, 20), rendered with two
\* decimals and with its sign, for every value a field can hold, the
\* temperatures -99..-1 included; the text of a sentinel field is empty.
C35_Original ==
    Encoded =>
        /\ last.obs[1].t = FieldText("t", EncodedReading.temperature_c, TEMP_NAN, TEMP_DIV)
        /\ last.obs[1].h = FieldText("h", EncodedReading.relative_humidity_pc, RHUM_NAN, RHUM_DIV)
        /\ last.obs[1].c = FieldText("c", EncodedReading.co2_ppm, CO2_NAN, CO2_DIV)

\* What holds: the same for every value but the temperatures -99..-1, whose
\* text is that of the value without its sign.
C35_SignLostBelowOne ==
    Encoded =>
        /\ last.obs[1].t =
              IF EncodedReading.temperature_c \in -99..-1
              THEN FieldText("t", -EncodedReading.temperature_c, TEMP_NAN, TEMP_DIV)
              ELSE FieldText("t", EncodedReading.temperature_c, TEMP_NAN, TEMP_DIV)
        /\ last.obs[1].h = FieldText("h", EncodedReading.relative_humidity_pc, RHUM_NAN, RHUM_DIV)
        /\ last.obs[1].c = FieldText("c", EncodedReading.co2_ppm, CO2_NAN, CO2_DIV)
        /\ last.obs[1].ok

\* A temperature of -0.50 degC has been encoded, as 0.50.
C35_Witness ==
    /\ Encoded
    /\ EncodedReading.temperature_c = -50
    /\ last.obs[1].t = <<"&", "t", "=", "0", ".", "5", "0">>

(***************************************************************************)
(* C36: config() during an upload.                                         *)
(***************************************************************************)
TimestampsOf(readings) == {readings[i].timestamp : i \in DOMAIN readings}

\* The readings of r's buffer that the last batch covered: the ones CLEANUP
\* removes.
Acknowledged(r) == {ts \in TimestampsOf(r.readings_) : ts <= r.upload_ts_last_}

\* The readings of r's buffer in the batch r has sent.
SentBatch(r) ==
    {ts \in TimestampsOf(r.readings_) :
        r.upload_ts_first_ <= ts /\ ts <= r.upload_ts_last_}

\* The next upload cycle from r (state IDLE): add() of a, which starts it
\* when it takes the state to CONNECT, then the two calls of loop() that
\* connect and send.
NextUpload(r, a, in) ==
    LET r1 == add(r, a.timestamp, a.temperature_c, a.relative_humidity_pc,
                  a.co2_ppm, in)
        r2 == loop([r1 EXCEPT !.obs = <<>>], in)
        r3 == loop([r2 EXCEPT !.obs = <<>>], in)
    IN  [starts |-> r1.state_ = "CONNECT",
         evicts |-> "discard" \in Ops(r1.obs),
         began |-> r1,
         posted |-> "POST" \in Ops(r3.obs),
         sent |-> r3]

ConfigFrame ==
    last'.call = "config" =>
        /\ report'.readings_ = report.readings_
        /\ report'.state_ = "IDLE"
ConfigInCleanup == last.call = "config" /\ last.state = "CLEANUP"

NamedWhileCurrent(op) ==
    /\ sensor.current_operation_ = op
    /\ op \in sensor.pending_operations_

\* loop() has sent the request a run of the ambient pressure's operation
\* begins with: the read of its register.
RunBegins ==
    /\ sensor.current_operation_ = "CONFIG_AMBIENT_PRESSURE"
    /\ \E i \in DOMAIN slast.obs :
          /\ slast.obs[i].op = "read"
          /\ slast.obs[i].address = AMBIENT_PRESSURE_ADDRESS

\* The register holds the value of the settings: loop() has sent the write
\* of that value, or has read it from the device.
RegisterSettled ==
    \E i \in DOMAIN slast.obs :
       \/ /\ slast.obs[i].op = "write"
          /\ slast.obs[i].address = AMBIENT_PRESSURE_ADDRESS
          /\ slast.obs[i].value = ambient_pressure(settings)
       \/ /\ slast.obs[i].op = "read_done"
          /\ slast.obs[i].address = AMBIENT_PRESSURE_ADDRESS
          /\ slast.obs[i].args = <<ambient_pressure(settings)>>

CalibrationRequested(s) ==
    "CALIBRATE" \in s.pending_operations_ \/ s.current_operation_ = "CALIBRATE"

\* C38: after a call of reset() CALIBRATE is neither pending nor current,
\* whether it was before or not; it becomes pending only by a call of
\* calibrate(); and the calibration value is written only by a step that
\* found CALIBRATE pending or current: so a calibration requested and not
\* yet acknowledged when reset() occurs is never written, unless
\* calibrate() is called again.
C38_ResetDiscardsCalibration ==
    [][/\ "reset" \in Ops(slast'.obs) => ~CalibrationRequested(sensor')
       /\ (~CalibrationRequested(sensor) /\ CalibrationRequested(sensor'))
             => "calibrate" \in Ops(slast'.obs)
       /\ CalibrationWrites(slast'.obs) # {} => CalibrationRequested(sensor)]_vars

\* reset() has been called on the short acknowledgement of the write of
\* the highest calibration value, CALIBRATE being current: it is neither
\* pending nor current after.
C38_Witness ==
    /\ "reset" \in Ops(slast.obs)
    /\ \E i \in DOMAIN slast.obs :
          /\ slast.obs[i].op = "write_done"
          /\ slast.obs[i].address = FORCED_RECALIBRATION_ADDRESS
    /\ sensor.calibration_ppm_ = MAXIMUM_CALIBRATION_PPM
    /\ ~CalibrationRequested(sensor)

(***************************************************************************)
(* C39: the effect of Sensor::config(operations).                          *)
(***************************************************************************)
\* The five kinds of the configuration set.
ConfigurationKinds ==
    {"CONFIG_AUTOMATIC_CALIBRATION", "CONFIG_TEMPERATURE_OFFSET",
     "CONFIG_ALTITUDE_COMPENSATION", "CONFIG_CONTINUOUS_MEASUREMENT",
     "CONFIG_AMBIENT_PRESSURE"}

\* The call of config() recorded in obs.
ConfigCalled(obs) == obs # <<>> /\ obs[1].op = "config"
Listed(obs) == {obs[1].args[i] : i \in DOMAIN obs[1].args}

\* C39: config(operations) adds to the pending operations the five
\* configuration kinds when the list is empty, and the listed ones among
\* the five when it is not (none for TAKE_MEASUREMENT, SOFT_RESET,
\* READ_FIRMWARE_VERSION and CALIBRATE); it sets the interval to the
\* setting cut to 0..255, and leaves everything else as it was, the current
\* operation and the response among it.
C39_ConfigEffect ==
    [][ConfigCalled(slast'.obs) =>
          LET made == IF slast'.obs[1].args = <<>>
                      THEN ConfigurationKinds
                      ELSE Listed(slast'.obs) \cap ConfigurationKinds
              value == slast'.obs[1].value
          IN  /\ sensor'.pending_operations_ = sensor.pending_operations_ \cup made
              /\ Listed(slast'.obs) \subseteq
                    {"TAKE_MEASUREMENT", "SOFT_RESET", "READ_FIRMWARE_VERSION", "CALIBRATE"}
                    /\ slast'.obs[1].args # <<>>
                    => sensor'.pending_operations_ = sensor.pending_operations_
              /\ sensor'.current_operation_ = sensor.current_operation_
              /\ sensor'.response_ = sensor.response_
              /\ sensor'.interval_ = IF value > 255 THEN 255 ELSE value
              /\ sensor'.interval_ \in 0..255
              /\ sensor' = [sensor EXCEPT
                              !.pending_operations_ = sensor'.pending_operations_,
                              !.interval_ = sensor'.interval_]]_vars

\* config() has been called with CALIBRATE and the temperature offset's
\* operation and an interval of 256 during the read of the ambient
\* pressure's register: the temperature offset's operation alone is
\* pending and the interval is 255.
C39_Witness ==
    /\ ConfigCalled(slast.obs)
    /\ slast.obs[1].args = <<"CALIBRATE", "CONFIG_TEMPERATURE_OFFSET">>
    /\ slast.obs[1].value = 256
    /\ sensor.pending_operations_ = {"CONFIG_TEMPERATURE_OFFSET"}
    /\ sensor.current_operation_ = "CONFIG_AMBIENT_PRESSURE"
    /\ sensor.response_.kind = "read"
    /\ sensor.interval_ = 255

(***************************************************************************)
(* C40: every reading leaves the buffer.                                   *)
(***************************************************************************)
Buffered(ts) == ts \in TimestampsOf(report.readings_)

\* The model has no later time to give add(): the newest reading has the
\* last timestamp, and no upload is under way.
OutOfTime ==
    /\ report.state_ = "IDLE"
    /\ report.readings_ # <<>>
    /\ report.readings_[Len(report.readings_)].timestamp = BASELINE + MaxTs

\* A call of loop() during an upload takes it one step on (the calls that
\* UploadSpec has made time and again are calls that act).
LoopActs ==
    LoopCanAct =>
        loop(report, [response |-> HTTP_CODE_OK, body |-> ACK]).state_ # report.state_

\* A reading leaves the buffer by the pop_front() of CLEANUP, which follows
\* the acknowledgement of a batch that held it, or by the pop_front() of
\* add() on overflow.
LeavesByCleanupOrOverflow ==
    \A ts \in TimestampsOf(report.readings_) \ TimestampsOf(report'.readings_) :
       \/ /\ "remove" \in Ops(last'.obs)
          /\ last'.state = "CLEANUP"
          /\ report.upload_ts_first_ <= ts /\ ts <= report.upload_ts_last_
          /\ cycle.response = HTTP_CODE_OK /\ cycle.body = ACK
       \/ "discard" \in Ops(last'.obs)

\* add() begins an upload when it has stored a reading with no upload
\* under way and the buffer has reached the threshold.
BeginsAtThreshold ==
    (/\ "emplace" \in Ops(last'.obs)
     /\ report.state_ = "IDLE"
     /\ Len(report'.readings_) >= report.threshold_)
        => report'.state_ = "CONNECT"

\* The reading is in the buffer and in the upload under way: the oldest
\* one before the batch is sent, one of the batch after.
InUpload(ts) ==
    /\ Buffered(ts)
    /\ \/ /\ report.state_ \in {"CONNECT", "SEND"}
          /\ report.readings_[1].timestamp = ts
       \/ /\ report.state_ \in {"RECEIVE", "CLEANUP"}
          /\ report.upload_ts_first_ <= ts /\ ts <= report.upload_ts_last_

\* C40: with uploading enabled, a server that acknowledges every upload,
\* and add() and loop() called again and again: an upload begins when the
\* buffer reaches the threshold, every reading of an upload under way is
\* eventually not in the buffer, and so is every reading unless the times
\* of the model end before its upload begins; a reading leaves the buffer
\* because CLEANUP has removed it with its acknowledged batch or because
\* add() has discarded it on overflow.
C40_UploadProgress ==
    /\ []LoopActs
    /\ [][BeginsAtThreshold /\ LeavesByCleanupOrOverflow]_vars
    /\ \A ts \in BASELINE .. (BASELINE + MaxTs) :
          /\ InUpload(ts) ~> ~Buffered(ts)
          /\ Buffered(ts) ~> (~Buffered(ts) \/ OutOfTime)

\* CLEANUP has removed the readings of an acknowledged batch, the one with
\* the first timestamp among them, and has left a later one.
C40_Witness ==
    /\ last.call \in {"add", "loop"}
    /\ last.state = "CLEANUP"
    /\ Count(last.obs, "remove") > 0
    /\ report.upload_ts_first_ = BASELINE
    /\ ~Buffered(BASELINE)
    /\ report.readings_ # <<>>

====
